---------------------------- MODULE Spec2Model ----------------------------
(***************************************************************************)
(* ScholarRank pipeline: EligibilityMatcher (src/matching/matcher.py),     *)
(* Deduplicator (src/processing/deduplicator.py), FitScorer                *)
(* (src/matching/scorer.py) and Normalizer (src/processing/normalizer.py), *)
(* modelled as state machines whose actions apply the pure functions of    *)
(* the code to inputs drawn from bounded sets.                             *)
(*                                                                         *)
(* Conventions.  An Optional value is a sequence of length at most one:    *)
(* <<>> is Python's None (or a missing dict key), <<v>> is the value v.    *)
(* Python strings are TLA+ strings; GPAs are integers in hundredths.       *)
(***************************************************************************)
EXTENDS Integers, Sequences, FiniteSets, TLC

VARIABLES
    profile,          \* matcher input: the UserProfile
    eligibility,      \* matcher input: the parsed_eligibility dict
    result,           \* the MatchResult of the last call of match, if any
    scholarships,     \* deduplicate input: the list of scholarship dicts
    mark_only,        \* deduplicate input: the mark_only flag
    dd_pc,            \* where the call of deduplicate stands
    completeness,     \* deduplicate local: the completeness of each record
    duplicate_pairs,  \* deduplicate local: the list find_duplicates returned
    pending,          \* positions of duplicate_pairs not yet unioned
    parent,           \* deduplicate local: the union-find parent array
    dedup_out,        \* the list deduplicate returned
    filler,           \* the number of further records of the input list,
                      \* each with a title that is similar to no other
    first_pass,       \* the size of the input and the list returned by
                      \* the first of two calls of deduplicate, if any
    dup_groups,       \* the list get_duplicate_groups returned, if any
    match_result,     \* calculate input: the MatchResult
    scholarship,      \* calculate input: the scholarship dict
    reference_date,   \* calculate input: the reference date (an ordinal)
    fit_score,        \* the FitScore of the last call of calculate, if any
    sb_match_results, \* score_batch input: the list of MatchResults
    sb_scholarships,  \* score_batch / rank_scholarships input: the dicts
    sb_scores,        \* the list score_batch returned
    rk_pc,            \* where the scoring and ranking of the batch stands
    rk_args,          \* the other arguments of the call of rank_scholarships
    rk_out,           \* the list rank_scholarships returned
    amount_str,       \* normalize_amount input
    amount_out,       \* the pair normalize_amount returned, if any
    nb_scholarships,  \* normalize_batch input: the list of raw dicts
    nb_pc,            \* where the normalizing of the batch stands
    nb_out,           \* the list normalize_batch returned
    nb_again,         \* the list normalize_batch returned for nb_out
    mb_profile,       \* match_batch input: the UserProfile
    mb_scholarships,  \* match_batch input: the list of scholarship dicts
    mb_pc,            \* where the call of match_batch stands
    mb_out            \* the list match_batch returned

matchVars == <<profile, eligibility, result>>
dedupVars == <<scholarships, mark_only, dd_pc, completeness,
               duplicate_pairs, pending, parent, dedup_out, filler,
               first_pass, dup_groups>>
scoreVars == <<match_result, scholarship, reference_date, fit_score>>
rankVars == <<sb_match_results, sb_scholarships, sb_scores, rk_pc, rk_args,
              rk_out>>
amountVars == <<amount_str, amount_out>>
normVars == <<nb_scholarships, nb_pc, nb_out, nb_again>>
batchVars == <<mb_profile, mb_scholarships, mb_pc, mb_out>>
vars == <<matchVars, dedupVars, scoreVars, rankVars, amountVars, normVars,
          batchVars>>

\* the variables of the other components, which a component leaves alone
notMatchVars == <<dedupVars, scoreVars, rankVars, amountVars, normVars,
                  batchVars>>
notDedupVars == <<matchVars, scoreVars, rankVars, amountVars, normVars,
                  batchVars>>
notScoreVars == <<matchVars, dedupVars, rankVars, amountVars, normVars,
                  batchVars>>
notRankVars == <<matchVars, dedupVars, scoreVars, amountVars, normVars,
                 batchVars>>
notAmountVars == <<matchVars, dedupVars, scoreVars, rankVars, normVars,
                   batchVars>>
notNormVars == <<matchVars, dedupVars, scoreVars, rankVars, amountVars,
                 batchVars>>
notBatchVars == <<matchVars, dedupVars, scoreVars, rankVars, amountVars,
                  normVars>>

None == <<>>
Some(v) == <<v>>
IsNone(o) == o = <<>>
Val(o) == o[1]

\* Python truthiness of an Optional[str] / Optional[list]: None and the empty
\* value are both falsy.
TruthyStr(o) == o # <<>> /\ o[1] # ""

\* no call of match / of deduplicate / of calculate is under way
MatchIdle == profile = None /\ eligibility = None /\ result = None
DedupIdle ==
    /\ scholarships = <<>> /\ mark_only = TRUE /\ dd_pc = "idle"
    /\ completeness = <<>> /\ duplicate_pairs = <<>> /\ pending = {}
    /\ parent = <<>> /\ dedup_out = <<>>
    /\ filler = 0 /\ first_pass = None /\ dup_groups = None
ScoreIdle ==
    /\ match_result = None /\ scholarship = None
    /\ reference_date = None /\ fit_score = None
RankIdle ==
    /\ sb_match_results = <<>> /\ sb_scholarships = <<>> /\ sb_scores = <<>>
    /\ rk_pc = "idle" /\ rk_args = None /\ rk_out = <<>>
AmountIdle == amount_str = None /\ amount_out = None
NormIdle ==
    /\ nb_scholarships = <<>> /\ nb_pc = "idle"
    /\ nb_out = <<>> /\ nb_again = <<>>
BatchIdle ==
    /\ mb_profile = None /\ mb_scholarships = <<>>
    /\ mb_pc = "idle" /\ mb_out = <<>>

\* no call of a component other than the matcher (the deduplicator, the
\* scorer, ...) is under way
OnlyMatch ==
    DedupIdle /\ ScoreIdle /\ RankIdle /\ AmountIdle /\ NormIdle /\ BatchIdle
OnlyDedup ==
    MatchIdle /\ ScoreIdle /\ RankIdle /\ AmountIdle /\ NormIdle /\ BatchIdle
OnlyScore ==
    MatchIdle /\ DedupIdle /\ RankIdle /\ AmountIdle /\ NormIdle /\ BatchIdle
OnlyRank ==
    MatchIdle /\ DedupIdle /\ ScoreIdle /\ AmountIdle /\ NormIdle /\ BatchIdle
OnlyAmount ==
    MatchIdle /\ DedupIdle /\ ScoreIdle /\ RankIdle /\ NormIdle /\ BatchIdle
OnlyNorm ==
    MatchIdle /\ DedupIdle /\ ScoreIdle /\ RankIdle /\ AmountIdle /\ BatchIdle
OnlyBatch ==
    MatchIdle /\ DedupIdle /\ ScoreIdle /\ RankIdle /\ AmountIdle /\ NormIdle

(***************************************************************************)
(* Strings                                                                 *)
(***************************************************************************)
UpperChars == "ABCDEFGHIJKLMNOPQRSTUVWXYZ"
LowerChars == "abcdefghijklmnopqrstuvwxyz"

CharAt(s, i) == SubSeq(s, i, i)

\* the table of str.lower() on the ASCII letters
LowerTable ==
    [c \in {CharAt(UpperChars, i) : i \in 1..26} |->
        CharAt(LowerChars, CHOOSE i \in 1..26 : CharAt(UpperChars, i) = c)]

\* str.lower() on one character
LowerChar(c) == IF c \in DOMAIN LowerTable THEN LowerTable[c] ELSE c

RECURSIVE Lower(_)
\* str.lower()
Lower(s) ==
    IF s = "" THEN ""
    ELSE LowerChar(CharAt(s, 1)) \o Lower(SubSeq(s, 2, Len(s)))

\* Python's `a in b` on strings: a is a contiguous substring of b
StrIn(a, b) ==
    \E i \in 0..(Len(b) - Len(a)) : SubSeq(b, i + 1, i + Len(a)) = a

\* `a.lower() in b.lower() or b.lower() in a.lower()`
EitherContains(a, b) ==
    LET la == Lower(a)
        lb == Lower(b)
    IN  StrIn(la, lb) \/ StrIn(lb, la)


(***************************************************************************)
(* EligibilityMatcher                                                      *)
(***************************************************************************)
MATCHED == "matched"
PARTIAL == "partial"
UNMATCHED == "unmatched"
UNKNOWN == "unknown"
NOT_APPLICABLE == "n/a"

MatchStatus == {MATCHED, PARTIAL, UNMATCHED, UNKNOWN, NOT_APPLICABLE}

\* RequirementMatch(requirement, status, is_hard); the display strings
\* user_value and required_value are not read by any computation and are
\* left out.
RequirementMatch(req, st, hard) ==
    [requirement |-> req, status |-> st, is_hard |-> hard]

\* any(P(x) for x in seq)
AnyOf(seq, P(_)) == \E i \in 1..Len(seq) : P(seq[i])

CITIZENSHIP_MAP(status) ==
    CASE status = "us_citizen" ->
            <<"US Citizen", "US Citizens", "American", "Citizen">>
      [] status = "permanent_resident" ->
            <<"Permanent Resident", "Green Card", "LPR">>
      [] status = "international" ->
            <<"International", "International Student", "Foreign">>
      [] status = "daca" -> <<"DACA", "Dreamer">>
      [] status = "refugee" -> <<"Refugee", "Asylee">>
      [] OTHER -> <<status>>    \* .get(user_citizenship, [user_citizenship.value])

\* _check_gpa with an absent user GPA read as a GPA of 0 (`gpa or 0`)
_check_gpa_absent_as_zero(p, e) ==
    IF IsNone(e.min_gpa) THEN None
    ELSE LET user_gpa == IF IsNone(p.gpa) THEN 0 ELSE Val(p.gpa)
         IN  IF user_gpa >= Val(e.min_gpa)
             THEN Some(RequirementMatch("GPA", MATCHED, TRUE))
             ELSE Some(RequirementMatch("GPA", UNMATCHED, TRUE))

\* Each _check_* returns an Optional RequirementMatch: <<>> or <<rm>>.
_check_gpa(p, e) ==
    IF IsNone(e.min_gpa) THEN None
    ELSE IF IsNone(p.gpa)
         THEN Some(RequirementMatch("GPA", UNKNOWN, TRUE))
         ELSE IF Val(p.gpa) >= Val(e.min_gpa)
              THEN Some(RequirementMatch("GPA", MATCHED, TRUE))
              ELSE Some(RequirementMatch("GPA", UNMATCHED, TRUE))

\* _check_citizenship that looks for a synonym inside the requirement only
_check_citizenship_one_way(p, e) ==
    IF e.citizenship = <<>> THEN None
    ELSE IF IsNone(p.citizenship_status)
         THEN Some(RequirementMatch("Citizenship", UNKNOWN, TRUE))
         ELSE LET user_values == CITIZENSHIP_MAP(Val(p.citizenship_status))
                  synonym(req) ==
                      LET hit(uv) == StrIn(Lower(uv), Lower(req))
                      IN  AnyOf(user_values, hit)
              IN  Some(RequirementMatch("Citizenship",
                          IF AnyOf(e.citizenship, synonym) THEN MATCHED
                          ELSE UNMATCHED, TRUE))

_check_citizenship(p, e) ==
    IF e.citizenship = <<>> THEN None
    ELSE IF IsNone(p.citizenship_status)
         THEN Some(RequirementMatch("Citizenship", UNKNOWN, TRUE))
         ELSE LET uc == Val(p.citizenship_status)
                  user_values == CITIZENSHIP_MAP(uc)
                  synonym(req) ==
                      LET hit(uv) == EitherContains(uv, req)
                      IN  AnyOf(user_values, hit)
                  intl(req) == StrIn("international", Lower(req))
                  matched ==
                      \/ AnyOf(e.citizenship, synonym)
                      \/ uc = "international" /\ AnyOf(e.citizenship, intl)
              IN  Some(RequirementMatch("Citizenship",
                          IF matched THEN MATCHED ELSE UNMATCHED, TRUE))

_is_related_field(user_field, required_field) ==
    LET stem_fields == <<"computer", "engineering", "math", "science",
                         "physics", "chemistry", "biology", "data">>
        business_fields == <<"business", "finance", "accounting",
                             "economics", "marketing">>
        arts_fields == <<"art", "music", "theater", "film", "design",
                         "creative">>
        inUser(f) == StrIn(f, user_field)
    IN  IF required_field \in {"stem", "science", "technology",
                               "engineering", "mathematics"}
        THEN AnyOf(stem_fields, inUser)
        ELSE IF required_field \in {"business", "commerce"}
        THEN AnyOf(business_fields, inUser)
        ELSE IF required_field \in {"arts", "humanities"}
        THEN AnyOf(arts_fields, inUser)
        ELSE FALSE

RECURSIVE MajorLoopFirstDecides(_, _, _, _)
\* the loop leaving at the first required major that is matched or related
MajorLoopFirstDecides(user_major_lower, required_majors, i, partial) ==
    IF i > Len(required_majors) THEN <<FALSE, partial>>
    ELSE LET req_lower == Lower(required_majors[i])
         IN  IF StrIn(req_lower, user_major_lower)
                \/ StrIn(user_major_lower, req_lower)
             THEN <<TRUE, partial>>
             ELSE IF _is_related_field(user_major_lower, req_lower)
             THEN <<FALSE, TRUE>>
             ELSE MajorLoopFirstDecides(user_major_lower, required_majors,
                                        i + 1, partial)

RECURSIVE MajorLoop(_, _, _, _)
\* the for loop of _check_major from index i on, with the partial flag so
\* far; returns <<matched, partial>>
MajorLoop(user_major_lower, required_majors, i, partial) ==
    IF i > Len(required_majors) THEN <<FALSE, partial>>
    ELSE LET req_lower == Lower(required_majors[i])
         IN  IF StrIn(req_lower, user_major_lower)
                \/ StrIn(user_major_lower, req_lower)
             THEN <<TRUE, partial>>                 \* matched = True; break
             ELSE MajorLoop(user_major_lower, required_majors, i + 1,
                     partial \/ _is_related_field(user_major_lower, req_lower))

\* _check_major with is_hard left at the dataclass default (True)
_check_major_default_hard(p, e) ==
    IF e.majors = <<>> THEN None
    ELSE IF ~TruthyStr(p.major)
         THEN Some(RequirementMatch("Major", UNKNOWN, TRUE))
         ELSE LET r == MajorLoop(Lower(Val(p.major)), e.majors, 1, FALSE)
                  status == IF r[1] THEN MATCHED
                            ELSE IF r[2] THEN PARTIAL
                            ELSE UNMATCHED
              IN  Some(RequirementMatch("Major", status, TRUE))

_check_major(p, e) ==
    IF e.majors = <<>> THEN None
    ELSE IF ~TruthyStr(p.major)
         THEN Some(RequirementMatch("Major", UNKNOWN, FALSE))
         ELSE LET r == MajorLoop(Lower(Val(p.major)), e.majors, 1, FALSE)
                  status == IF r[1] THEN MATCHED
                            ELSE IF r[2] THEN PARTIAL
                            ELSE UNMATCHED
              IN  Some(RequirementMatch("Major", status, FALSE))

\* the shape shared by _check_degree_level, _check_year and _check_state
ListCheck(label, user, required) ==
    IF required = <<>> THEN None
    ELSE IF ~TruthyStr(user)
         THEN Some(RequirementMatch(label, UNKNOWN, FALSE))
         ELSE LET hit(req) == EitherContains(req, Val(user))
              IN  Some(RequirementMatch(label,
                          IF AnyOf(required, hit) THEN MATCHED ELSE UNMATCHED,
                          FALSE))

_check_degree_level(p, e) == ListCheck("Degree", p.degree_level, e.degree_levels)

_check_year(p, e) == ListCheck("Year", p.year_in_school, e.year_in_school)

_check_state(p, e) == ListCheck("State", p.state, e.states)

\* the body of the loop of _check_demographics for one requirement string
DemographicMatch(p, req) ==
    LET req_lower == Lower(req)
        user_ethnicity == IF IsNone(p.ethnicity) THEN <<>> ELSE Val(p.ethnicity)
        ethHit(x) == EitherContains(x, req)
        eth == AnyOf(user_ethnicity, ethHit)
        fgReq == StrIn("first", req_lower) /\ StrIn("generation", req_lower)
        gen == ~IsNone(p.gender) /\ EitherContains(Val(p.gender), req)
        lgReq == StrIn("lgbtq", req_lower) \/ StrIn("lgbt", req_lower)
        matched == \/ eth
                   \/ fgReq /\ p.first_generation = Some(TRUE)
                   \/ gen
                   \/ lgReq /\ p.lgbtq = Some(TRUE)
        has_user_value == \/ eth
                          \/ fgReq /\ ~IsNone(p.first_generation)
                          \/ gen
                          \/ lgReq /\ ~IsNone(p.lgbtq)
        status == IF ~has_user_value THEN UNKNOWN
                  ELSE IF matched THEN MATCHED
                  ELSE UNMATCHED
    IN  RequirementMatch("Demographics: " \o req, status, FALSE)

_check_demographics(p, e) ==
    [i \in 1..Len(e.demographics) |-> DemographicMatch(p, e.demographics[i])]

_check_financial_need(p, e) ==
    IF IsNone(e.financial_need) THEN None
    ELSE IF IsNone(p.financial_need)
         THEN Some(RequirementMatch("Demonstrates financial need", UNKNOWN, FALSE))
         ELSE LET requires == Val(e.financial_need)
                  has == Val(p.financial_need)
                  status == IF requires /\ has THEN MATCHED
                            ELSE IF ~requires THEN MATCHED
                            ELSE UNMATCHED
              IN  Some(RequirementMatch("Demonstrates financial need", status, FALSE))

_check_military(p, e) ==
    IF IsNone(e.military_affiliation) THEN None
    ELSE LET requires == Val(e.military_affiliation)
             has_military == TruthyStr(p.military_affiliation)
                             \/ p.veteran = Some(TRUE)
         IN  IF ~TruthyStr(p.military_affiliation) /\ IsNone(p.veteran)
             THEN Some(RequirementMatch("Military affiliation", UNKNOWN, FALSE))
             ELSE LET status == IF requires /\ has_military THEN MATCHED
                                ELSE IF ~requires THEN MATCHED
                                ELSE UNMATCHED
                  IN  Some(RequirementMatch("Military affiliation", status, FALSE))

\* sum(1 for d in details if d.status in S)
CountStatus(details, S) ==
    Cardinality({i \in 1..Len(details) : details[i].status \in S})

\* HardFails without the is_hard test and with unknown taken as a failure
HardFailsUnlessMatched(rmOpt) ==
    rmOpt # <<>> /\ rmOpt[1].status \in {UNMATCHED, UNKNOWN}

\* a hard requirement came back unmatched (matcher.py lines 114 and 121)
HardFails(rmOpt) ==
    rmOpt # <<>> /\ rmOpt[1].status = UNMATCHED /\ rmOpt[1].is_hard

\* MatchPercentage with a partial match counted as a full one
MatchPercentagePartialAsFull(matched, partial, total) ==
    IF total > 0
    THEN [num |-> (matched + partial) * 100, den |-> total]
    ELSE [num |-> 100, den |-> 1]

\* match_percentage is the exact rational num/den of the float expression
\* (matched + partial * 0.5) / total * 100, or 100/1 when total = 0.
MatchPercentage(matched, partial, total) ==
    IF total > 0
    THEN [num |-> (2 * matched + partial) * 100, den |-> 2 * total]
    ELSE [num |-> 100, den |-> 1]

\* EligibilityMatcher.match
Match(p, e) ==
    LET gpa_match == _check_gpa(p, e)
        citizenship_match == _check_citizenship(p, e)
        hard_failure == HardFails(gpa_match) \/ HardFails(citizenship_match)
        details == gpa_match \o citizenship_match
                   \o _check_major(p, e)
                   \o _check_degree_level(p, e)
                   \o _check_year(p, e)
                   \o _check_demographics(p, e)
                   \o _check_state(p, e)
                   \o _check_financial_need(p, e)
                   \o _check_military(p, e)
        matched == CountStatus(details, {MATCHED})
        partial == CountStatus(details, {PARTIAL})
        total == CountStatus(details, MatchStatus \ {UNKNOWN, NOT_APPLICABLE})
    IN  [eligible |-> ~hard_failure,
         match_count |-> matched,
         total_requirements |-> total,
         partial_count |-> partial,
         match_percentage |-> MatchPercentage(matched, partial, total),
         details |-> details]


(***************************************************************************)
(* Matcher inputs.  A profile is a hard part (GPA, citizenship) combined   *)
(* with the soft fields of one of a few users; an eligibility object is a  *)
(* hard part combined with at most MaxSoftReqs soft requirements.          *)
(***************************************************************************)
MaxSoftReqs == 3

UserGpas == {None, Some(320), Some(350)}
MinGpas == {None, Some(350)}
UserCitizenships == {None, Some("us_citizen"), Some("international")}
RequiredCitizenships == {<<>>, <<"US Citizens", "Permanent Residents">>}

NoSoftFields ==
    [major |-> None, degree_level |-> None, year_in_school |-> None,
     state |-> None, gender |-> None, ethnicity |-> Some(<<>>),
     first_generation |-> None, lgbtq |-> None, veteran |-> None,
     financial_need |-> None, military_affiliation |-> None]

SoftFieldSets ==
    { NoSoftFields,
      [major |-> Some("Biology"), degree_level |-> Some("undergraduate"),
       year_in_school |-> Some("senior"), state |-> Some("CA"),
       gender |-> Some("female"), ethnicity |-> Some(<<"Hispanic">>),
       first_generation |-> Some(TRUE), lgbtq |-> None,
       veteran |-> Some(TRUE), financial_need |-> Some(TRUE),
       military_affiliation |-> None],
      [major |-> Some("Art History"), degree_level |-> Some("graduate"),
       year_in_school |-> Some("graduate_1"), state |-> Some("Texas"),
       gender |-> Some("male"), ethnicity |-> Some(<<>>),
       first_generation |-> Some(FALSE), lgbtq |-> Some(FALSE),
       veteran |-> Some(FALSE), financial_need |-> Some(FALSE),
       military_affiliation |-> Some("")],
      [major |-> Some("Computer Science"), degree_level |-> Some("doctoral"),
       year_in_school |-> None, state |-> None,
       gender |-> None, ethnicity |-> None,
       first_generation |-> None, lgbtq |-> None, veteran |-> None,
       financial_need |-> None, military_affiliation |-> Some("Army")] }

MakeProfile(gpa, cit, soft) ==
    [gpa |-> gpa, citizenship_status |-> cit,
     major |-> soft.major, degree_level |-> soft.degree_level,
     year_in_school |-> soft.year_in_school, state |-> soft.state,
     gender |-> soft.gender, ethnicity |-> soft.ethnicity,
     first_generation |-> soft.first_generation, lgbtq |-> soft.lgbtq,
     veteran |-> soft.veteran, financial_need |-> soft.financial_need,
     military_affiliation |-> soft.military_affiliation]

Profiles ==
    { MakeProfile(g, c, s) : g \in UserGpas, c \in UserCitizenships,
                             s \in SoftFieldSets }

SoftReqChoices ==
    [majors : {<<>>, <<"STEM", "Biology">>, <<"Arts", "Humanities">>},
     degree_levels : {<<>>, <<"Undergraduate">>, <<"Doctoral", "PhD">>},
     year_in_school : {<<>>, <<"Junior", "Senior">>, <<"Freshman">>},
     demographics : {<<>>, <<"Female", "First-generation students">>,
                     <<"Hispanic/Latino", "LGBTQ+">>},
     states : {<<>>, <<"CA", "California">>, <<"NY">>},
     financial_need : {None, Some(TRUE), Some(FALSE)},
     military_affiliation : {None, Some(TRUE), Some(FALSE)}]

SoftReqCount(r) ==
    Cardinality({f \in DOMAIN r : r[f] # <<>>})

SoftReqs == {r \in SoftReqChoices : SoftReqCount(r) <= MaxSoftReqs}

MakeEligibility(min_gpa, cit, r) ==
    [min_gpa |-> min_gpa, citizenship |-> cit,
     majors |-> r.majors, degree_levels |-> r.degree_levels,
     year_in_school |-> r.year_in_school, demographics |-> r.demographics,
     states |-> r.states, financial_need |-> r.financial_need,
     military_affiliation |-> r.military_affiliation]

Eligibilities ==
    { MakeEligibility(m, c, r) : m \in MinGpas, c \in RequiredCitizenships,
                                 r \in SoftReqs }

(***************************************************************************)
(* The matcher as a state machine: the inputs are drawn at Init and one    *)
(* call of match computes the MatchResult.                                 *)
(***************************************************************************)
InitMatch ==
    /\ profile \in Profiles
    /\ eligibility \in Eligibilities
    /\ result = None
    /\ OnlyMatch

CallMatch ==
    /\ result = None
    /\ result' = Some(Match(profile, eligibility))
    /\ UNCHANGED <<profile, eligibility, notMatchVars>>

NextMatch == CallMatch

SpecMatch == InitMatch /\ [][NextMatch]_vars


(***************************************************************************)
(* Claims about EligibilityMatcher.match (checked under SpecMatch)         *)
(***************************************************************************)
Called == result # None
Res == Val(result)
HardLabels == {"GPA", "Citizenship"}

DetailsOf(r) == {r.details[i] : i \in 1..Len(r.details)}

\* C1: the MatchResult has eligible = false if and only if its details hold
\* at least one RequirementMatch with is_hard = true and status unmatched.
C1_EligibleIffNoHardUnmatched ==
    Called =>
        (Res.eligible = FALSE
            <=> \E d \in DetailsOf(Res) : d.is_hard /\ d.status = UNMATCHED)

\* C1 witness: a call that returned eligible = false next to a soft
\* requirement that is unmatched too.
C1_Witness ==
    /\ Called
    /\ ~Res.eligible
    /\ \E d \in DetailsOf(Res) : d.is_hard /\ d.status = UNMATCHED
    /\ \E d \in DetailsOf(Res) : ~d.is_hard /\ d.status = UNMATCHED

\* C2: for a profile with neither GPA nor citizenship status, every GPA or
\* citizenship requirement of the eligibility object is reported, with status
\* unknown and never unmatched, and match returns eligible = true.
C2_MissingDataNeverDisqualifies ==
    (Called /\ IsNone(profile.gpa) /\ IsNone(profile.citizenship_status)) =>
        /\ Res.eligible
        /\ \A d \in DetailsOf(Res) :
              d.requirement \in HardLabels => d.status = UNKNOWN
        /\ ~IsNone(eligibility.min_gpa) =>
              \E d \in DetailsOf(Res) : d.requirement = "GPA"
        /\ eligibility.citizenship # <<>> =>
              \E d \in DetailsOf(Res) : d.requirement = "Citizenship"

\* C2 witness: a profile without GPA and citizenship matched against an
\* object that requires both, with soft fields that fail a soft requirement.
C2_Witness ==
    /\ Called
    /\ IsNone(profile.gpa) /\ IsNone(profile.citizenship_status)
    /\ ~IsNone(eligibility.min_gpa) /\ eligibility.citizenship # <<>>
    /\ \E d \in DetailsOf(Res) : d.requirement = "GPA" /\ d.status = UNKNOWN
    /\ \E d \in DetailsOf(Res) : d.status = UNMATCHED
    /\ Res.eligible

\* the inputs with every soft field cleared
HardOnlyProfile(p) == MakeProfile(p.gpa, p.citizenship_status, NoSoftFields)
HardOnlyEligibility(e) ==
    MakeEligibility(e.min_gpa, e.citizenship,
        [majors |-> <<>>, degree_levels |-> <<>>, year_in_school |-> <<>>,
         demographics |-> <<>>, states |-> <<>>, financial_need |-> None,
         military_affiliation |-> None])

\* C3: every RequirementMatch for major, degree level, year in school,
\* demographics, state, financial need and military affiliation has
\* is_hard = false, and eligible is the value match returns with all soft
\* fields of the profile and of the eligibility object cleared; so any two
\* calls that differ only in soft fields return the same eligible.
C3_SoftNeverDisqualifies ==
    Called =>
        /\ \A d \in DetailsOf(Res) :
              d.requirement \notin HardLabels => d.is_hard = FALSE
        /\ Res.eligible =
              Match(HardOnlyProfile(profile),
                    HardOnlyEligibility(eligibility)).eligible

\* C3 witness: two soft requirements unmatched, and the call still eligible.
C3_Witness ==
    /\ Called
    /\ Res.eligible
    /\ Cardinality({d \in DetailsOf(Res) :
                        ~d.is_hard /\ d.status = UNMATCHED}) >= 2
    /\ \E d \in DetailsOf(Res) : d.is_hard /\ d.status = MATCHED

\* the number of details with a status in S, counted entry by entry
RECURSIVE CountIn(_, _)
CountIn(details, S) ==
    IF details = <<>> THEN 0
    ELSE (IF Head(details).status \in S THEN 1 ELSE 0)
         + CountIn(Tail(details), S)

\* C4: match_percentage = (matched + 0.5 * partial) / total_considered * 100
\* where total_considered counts the details that are neither unknown nor
\* n/a, and 100 when that count is 0; matched + partial <= total_considered;
\* 0 <= match_percentage <= 100; 3 matched + 1 partial of 4 gives 87.5.
C4_MatchPercentage ==
    Called =>
        LET m == CountIn(Res.details, {MATCHED})
            p == CountIn(Res.details, {PARTIAL})
            t == CountIn(Res.details, {MATCHED, PARTIAL, UNMATCHED})
            pct == Res.match_percentage
        IN  /\ pct.den > 0
            /\ t > 0 => pct.num * 2 * t = (2 * m + p) * 100 * pct.den
            /\ t = 0 => pct.num = 100 * pct.den
            /\ Res.match_count = m /\ Res.partial_count = p
            /\ Res.total_requirements = t
            /\ m + p <= t
            /\ 0 <= pct.num /\ pct.num <= 100 * pct.den
            /\ (m = 3 /\ p = 1 /\ t = 4) => pct.num * 10 = 875 * pct.den

\* C4 witness: 3 matched and 1 partial of 4 considered, next to an unknown.
C4_Witness ==
    /\ Called
    /\ CountIn(Res.details, {MATCHED}) = 3
    /\ CountIn(Res.details, {PARTIAL}) = 1
    /\ CountIn(Res.details, {MATCHED, PARTIAL, UNMATCHED}) = 4
    /\ CountIn(Res.details, {UNKNOWN}) >= 1


(***************************************************************************)
(* Deduplicator: values, title normalization, similarity, completeness     *)
(***************************************************************************)
\* A value held by a scholarship dict.  kind "missing" is an absent key;
\* s is the text of a str (or the repr of an int), n the value of an int or
\* the number of keys of a dict.
NoKey == [kind |-> "missing", s |-> "", n |-> 0]
PyNone == [kind |-> "none", s |-> "", n |-> 0]
PyStr(s) == [kind |-> "str", s |-> s, n |-> 0]
PyInt(n) == [kind |-> "int", s |-> "", n |-> n]
PyDict(n) == [kind |-> "dict", s |-> "", n |-> n]

\* Python truthiness (`if value:`, `not title`, `a or b`)
Truthy(v) ==
    CASE v.kind = "str" -> v.s # ""
      [] v.kind = "int" -> v.n # 0
      [] v.kind = "dict" -> v.n > 0
      [] OTHER -> FALSE

\* s.get('title', ''): the default only replaces an absent key
GetTitle(rec) == IF rec.title.kind = "missing" THEN PyStr("") ELSE rec.title

WhiteChars == {" ", "\t", "\n"}
WordChars ==
    {CharAt(LowerChars, i) : i \in 1..26} \cup {CharAt(UpperChars, i) : i \in 1..26}
    \cup {CharAt("0123456789_", i) : i \in 1..11}

RECURSIVE LStrip(_)
LStrip(s) ==
    IF s # "" /\ CharAt(s, 1) \in WhiteChars
    THEN LStrip(SubSeq(s, 2, Len(s))) ELSE s

RECURSIVE RStrip(_)
RStrip(s) ==
    IF s # "" /\ CharAt(s, Len(s)) \in WhiteChars
    THEN RStrip(SubSeq(s, 1, Len(s) - 1)) ELSE s

\* str.strip()
Strip(s) == LStrip(RStrip(s))

\* str.endswith
EndsWith(s, suffix) ==
    Len(s) >= Len(suffix)
    /\ SubSeq(s, Len(s) - Len(suffix) + 1, Len(s)) = suffix

RECURSIVE RemoveSpecial(_)
\* re.sub(r'[^\w\s]', '', s)
RemoveSpecial(s) ==
    IF s = "" THEN ""
    ELSE LET c == CharAt(s, 1)
             rest == RemoveSpecial(SubSeq(s, 2, Len(s)))
         IN  IF c \in WordChars \cup WhiteChars THEN c \o rest ELSE rest

RECURSIVE CollapseWhitespace(_)
\* re.sub(r'\s+', ' ', s)
CollapseWhitespace(s) ==
    IF s = "" THEN ""
    ELSE IF CharAt(s, 1) \in WhiteChars
         THEN " " \o CollapseWhitespace(LStrip(s))
         ELSE CharAt(s, 1) \o CollapseWhitespace(SubSeq(s, 2, Len(s)))

SUFFIXES ==
    <<"scholarship", "scholarships", "grant", "grants", "award", "awards",
      "fellowship", "fellowships", "program", "fund", "foundation">>

RECURSIVE StripSuffixes(_, _)
\* the single pass `for suffix in suffixes` from the k-th suffix on
StripSuffixes(normalized, k) ==
    IF k > Len(SUFFIXES) THEN normalized
    ELSE IF EndsWith(normalized, " " \o SUFFIXES[k])
         THEN StripSuffixes(
                  Strip(SubSeq(normalized, 1,
                               Len(normalized) - Len(SUFFIXES[k]) - 1)),
                  k + 1)
         ELSE StripSuffixes(normalized, k + 1)

\* title.lower() raises AttributeError on a truthy value that is not a str
TitleRaises(title) == Truthy(title) /\ title.kind # "str"

\* Deduplicator._normalize_title, for a title that does not raise
_normalize_title(title) ==
    IF ~Truthy(title) THEN ""
    ELSE Strip(CollapseWhitespace(RemoveSpecial(
             StripSuffixes(Strip(Lower(title.s)), 1))))

\* Deduplicator._title_fingerprint: the 12 hex digits of the MD5 of the
\* normalized title, kept as the hashed text (equal texts, equal digests)
_title_fingerprint(title) == <<"md5", _normalize_title(title)>>

\* difflib.SequenceMatcher.find_longest_match without junk: the longest
\* block common to a and b, starting earliest in a, then earliest in b
LongestMatch(a, b) ==
    LET la == Len(a)
        lb == Len(b)
        Block(i, j, k) == SubSeq(a, i, i + k - 1) = SubSeq(b, j, j + k - 1)
        Has(k) == \E i \in 1..(la - k + 1) : \E j \in 1..(lb - k + 1) :
                      Block(i, j, k)
        lim == IF la < lb THEN la ELSE lb
        size == CHOOSE k \in 0..lim :
                    /\ k = 0 \/ Has(k)
                    /\ k = lim \/ ~Has(k + 1)
    IN  IF size = 0 THEN [i |-> 1, j |-> 1, k |-> 0]
        ELSE LET bi == CHOOSE i \in 1..(la - size + 1) :
                         /\ \E j \in 1..(lb - size + 1) : Block(i, j, size)
                         /\ \A i2 \in 1..(i - 1) :
                               ~\E j \in 1..(lb - size + 1) : Block(i2, j, size)
                 bj == CHOOSE j \in 1..(lb - size + 1) :
                         /\ Block(bi, j, size)
                         /\ \A j2 \in 1..(j - 1) : ~Block(bi, j2, size)
             IN  [i |-> bi, j |-> bj, k |-> size]

RECURSIVE MatchingSize(_, _)
\* the total size of SequenceMatcher.get_matching_blocks()
MatchingSize(a, b) ==
    IF a = "" \/ b = "" THEN 0
    ELSE LET m == LongestMatch(a, b)
         IN  IF m.k = 0 THEN 0
             ELSE m.k
                  + MatchingSize(SubSeq(a, 1, m.i - 1), SubSeq(b, 1, m.j - 1))
                  + MatchingSize(SubSeq(a, m.i + m.k, Len(a)),
                                 SubSeq(b, m.j + m.k, Len(b)))

\* Deduplicator._title_similarity as the exact fraction <<num, den>>:
\* 0 for an empty normalized title, 1 for equal ones, else
\* SequenceMatcher.ratio() = 2 * matches / (len(a) + len(b))
_title_similarity(title1, title2) ==
    LET norm1 == _normalize_title(title1)
        norm2 == _normalize_title(title2)
    IN  IF norm1 = "" \/ norm2 = "" THEN <<0, 1>>
        ELSE IF norm1 = norm2 THEN <<1, 1>>
        ELSE <<2 * MatchingSize(norm1, norm2), Len(norm1) + Len(norm2)>>

\* similarity_threshold (default 0.85) in hundredths
SIMILARITY_THRESHOLD_PCT == 85

\* sim >= self.similarity_threshold
AtLeastThreshold(sim) == sim[1] * 100 >= SIMILARITY_THRESHOLD_PCT * sim[2]


Record(id, title, description, parsed_eligibility) ==
    [id |-> id, title |-> title, description |-> description,
     amount_min |-> NoKey, amount_max |-> NoKey, deadline |-> NoKey,
     application_url |-> NoKey, raw_eligibility |-> NoKey,
     parsed_eligibility |-> parsed_eligibility]

RecordPool ==
    { Record(PyStr("s1"), PyStr("Smith Award"), NoKey, NoKey),
      Record(NoKey, PyStr("SMITH award"), PyStr("For Smith alumni"), NoKey),
      Record(PyStr("s3"), PyStr("J.Smith Award"), NoKey, NoKey),
      Record(PyStr("s4"), PyStr("Smithe Award"), NoKey, PyDict(2)),
      Record(PyStr("w1"), PyStr("Women in STEM Scholarship"), NoKey, NoKey),
      Record(PyStr("w2"), PyStr("women in stem scholarship award"),
             PyStr("For women in science"), PyDict(1)),
      Record(PyStr("n1"), PyNone, PyStr("untitled"), NoKey),
      Record(NoKey, NoKey, NoKey, NoKey),
      Record(PyStr("e1"), PyStr(""), NoKey, NoKey),
      Record(PyStr("x1"), PyInt(123), NoKey, NoKey) }

\* the titles of the pool on which _normalize_title does not raise
PoolTitles == {GetTitle(r) : r \in RecordPool} \ {t \in {GetTitle(r) : r \in RecordPool} : TitleRaises(t)}

\* _title_fingerprint and _title_similarity of the pool's titles, computed
\* once; TitleFingerprint and TitleSimilarity read them and compute any
\* other title as the code does
FingerprintOfPool == [t \in PoolTitles |-> _title_fingerprint(t)]
SimilarityOfPool ==
    [pr \in PoolTitles \X PoolTitles |-> _title_similarity(pr[1], pr[2])]

TitleFingerprint(t) ==
    IF t \in PoolTitles THEN FingerprintOfPool[t] ELSE _title_fingerprint(t)

TitleSimilarity(t1, t2) ==
    IF t1 \in PoolTitles /\ t2 \in PoolTitles
    THEN SimilarityOfPool[<<t1, t2>>]
    ELSE _title_similarity(t1, t2)

Min2(a, b) == IF a < b THEN a ELSE b
Max2(a, b) == IF a > b THEN a ELSE b

COMPLETENESS_FIELDS ==
    <<"title", "description", "amount_min", "amount_max", "deadline",
      "application_url", "raw_eligibility", "parsed_eligibility">>

\* the points one field adds in the loop of _calculate_completeness
FieldScore(v) ==
    IF ~Truthy(v) THEN 0
    ELSE IF v.kind = "str" THEN Min2(Len(v.s), 500) \div 50 + 1
    ELSE IF v.kind = "dict" THEN v.n * 2
    ELSE 1

RECURSIVE SumFieldScores(_, _)
SumFieldScores(rec, k) ==
    IF k > Len(COMPLETENESS_FIELDS) THEN 0
    ELSE FieldScore(rec[COMPLETENESS_FIELDS[k]]) + SumFieldScores(rec, k + 1)

\* Deduplicator._calculate_completeness
_calculate_completeness(rec) ==
    SumFieldScores(rec, 1)
    + (IF Truthy(rec.parsed_eligibility) THEN 10 ELSE 0)
    + (IF Truthy(rec.deadline) THEN 5 ELSE 0)
    + (IF Truthy(rec.amount_min) \/ Truthy(rec.amount_max) THEN 5 ELSE 0)

RECURSIVE PairsFrom(_, _, _)
\* the pairs <<i, j>> with i < j <= n from <<i, j>> on, in the order of the
\* nested loops `for i in range(n): for j in range(i + 1, n)` (1-based here)
PairsFrom(i, j, n) ==
    IF i >= n THEN <<>>
    ELSE IF j > n THEN PairsFrom(i + 1, i + 2, n)
    ELSE <<<<i, j>>>> \o PairsFrom(i, j + 1, n)

AllPairs(n) == PairsFrom(1, 2, n)

\* the records whose title makes title.lower() raise
BadTitles(recs) ==
    {i \in 1..Len(recs) : TitleRaises(GetTitle(recs[i]))}

\* FUZZY_LIMIT: the input size up to which the all-pairs pass runs
FUZZY_LIMIT == 1000

\* the length pre-filter of the all-pairs pass: TRUE when the pair is skipped
LengthFiltered(title1, title2) ==
    /\ Truthy(title1) /\ Truthy(title2)
    /\ 2 * Min2(Len(title1.s), Len(title2.s))
          < Max2(Len(title1.s), Len(title2.s))

RECURSIVE BucketPairs(_, _, _)
\* first pass of find_duplicates: the fingerprint buckets in the order of
\* their first record f, each bucket's pairs in index order
BucketPairs(recs, fp, f) ==
    IF f > Len(recs) THEN <<>>
    ELSE LET first == \A k \in 1..(f - 1) : fp[k] # fp[f]
             inBucket(pr) ==
                 /\ fp[pr[1]] = fp[f] /\ fp[pr[2]] = fp[f]
                 /\ AtLeastThreshold(
                        TitleSimilarity(GetTitle(recs[pr[1]]),
                                          GetTitle(recs[pr[2]])))
         IN  (IF first THEN SelectSeq(AllPairs(Len(recs)), inBucket)
              ELSE <<>>)
             \o BucketPairs(recs, fp, f + 1)

\* find_duplicates with the all-pairs pass run whatever the size of the list
FindDuplicatesAllPairs(recs, more) ==
    LET n == Len(recs)
        fp == [i \in 1..n |-> TitleFingerprint(GetTitle(recs[i]))]
        exact == BucketPairs(recs, fp, 1)
        checked == {exact[k] : k \in 1..Len(exact)}
        fuzzy(pr) ==
            /\ pr \notin checked
            /\ ~LengthFiltered(GetTitle(recs[pr[1]]), GetTitle(recs[pr[2]]))
            /\ AtLeastThreshold(TitleSimilarity(GetTitle(recs[pr[1]]),
                                                GetTitle(recs[pr[2]])))
    IN  exact \o SelectSeq(AllPairs(n), fuzzy)

\* find_duplicates that stops at the first pair it finds
FindDuplicatesFirstOnly(recs, more) ==
    LET pairs == FindDuplicatesAllPairs(recs, more)
    IN  IF pairs = <<>> THEN <<>> ELSE <<pairs[1]>>

\* Deduplicator.find_duplicates for titles that do not raise, on the list
\* of the records recs followed by `more` records that are in no duplicate
\* pair (each has a title that is similar to no other title of the list);
\* the pairs <<i, j>> in the order the code appends them (the similarity of
\* a pair is not kept)
FindDuplicates(recs, more) ==
    LET n == Len(recs)
        fp == [i \in 1..n |-> TitleFingerprint(GetTitle(recs[i]))]
        exact == BucketPairs(recs, fp, 1)
        checked == {exact[k] : k \in 1..Len(exact)}
        fuzzy(pr) ==
            LET title1 == GetTitle(recs[pr[1]])
                title2 == GetTitle(recs[pr[2]])
            IN  /\ pr \notin checked
                /\ ~LengthFiltered(title1, title2)
                /\ AtLeastThreshold(TitleSimilarity(title1, title2))
    IN  IF n + more <= FUZZY_LIMIT
        THEN exact \o SelectSeq(AllPairs(n), fuzzy) ELSE exact

find_duplicates(recs) == FindDuplicates(recs, 0)

(***************************************************************************)
(* Deduplicator.deduplicate: union-find over the duplicate pairs           *)
(***************************************************************************)
RECURSIVE Find(_, _)
\* the root find(x) returns
Find(par, x) == IF par[x] = x THEN x ELSE Find(par, par[x])

RECURSIVE PathTo(_, _)
\* the nodes find(x) visits
PathTo(par, x) == IF par[x] = x THEN {x} ELSE {x} \cup PathTo(par, par[x])

\* parent after find(x): path compression points the visited nodes at the root
Compressed(par, x) ==
    [i \in DOMAIN par |->
        IF i \in PathTo(par, x) THEN Find(par, x) ELSE par[i]]

\* union that links the argument y (or x) instead of its root
UnionLinksArgument(par, comp, x, y) ==
    LET p1 == Compressed(par, x)
        px == Find(p1, x)
        p2 == Compressed(p1, y)
        py == Find(p2, y)
    IN  IF px = py THEN p2
        ELSE IF comp[px] >= comp[py] THEN [p2 EXCEPT ![y] = px]
        ELSE [p2 EXCEPT ![x] = py]

\* union with the test reversed: the less complete root becomes the parent
UnionLessComplete(par, comp, x, y) ==
    LET p1 == Compressed(par, x)
        px == Find(p1, x)
        p2 == Compressed(p1, y)
        py == Find(p2, y)
    IN  IF px = py THEN p2
        ELSE IF comp[px] <= comp[py] THEN [p2 EXCEPT ![py] = px]
        ELSE [p2 EXCEPT ![px] = py]

\* parent after union(x, y)
Union(par, comp, x, y) ==
    LET p1 == Compressed(par, x)
        px == Find(p1, x)
        p2 == Compressed(p1, y)
        py == Find(p2, y)
    IN  IF px = py THEN p2
        ELSE IF comp[px] >= comp[py] THEN [p2 EXCEPT ![py] = px]
        ELSE [p2 EXCEPT ![px] = py]

\* scholarships[root].get('id') or scholarships[root].get('title')
DuplicateOf(rec) ==
    IF Truthy(rec.id) THEN rec.id
    ELSE IF rec.title.kind = "missing" THEN PyNone ELSE rec.title

\* the annotated copy with the parent of record i taken for its root
AnnotatedByParent(recs, par, i) ==
    [index |-> i,
     record |-> recs[i],
     is_duplicate |-> par[i] # i,
     duplicate_of |-> IF par[i] # i THEN DuplicateOf(recs[par[i]])
                      ELSE PyNone]

\* the annotated copy of record i; index is the position i of the record in
\* the input (the loop variable), kept to state the order of the output
Annotated(recs, par, i) ==
    LET root == Find(par, i)
    IN  [index |-> i,
         record |-> recs[i],
         is_duplicate |-> root # i,
         duplicate_of |-> IF root # i THEN DuplicateOf(recs[root])
                          ELSE PyNone]

\* the marking loop with the test of mark_only dropped: every record is kept
MarkedKeepAll(recs, par, keep_all) ==
    [i \in 1..Len(recs) |-> Annotated(recs, par, i)]

\* the result list of the marking loop (lines 250-265)
Marked(recs, par, keep_all) ==
    LET all == [i \in 1..Len(recs) |-> Annotated(recs, par, i)]
        kept(s) == keep_all \/ ~s.is_duplicate
    IN  SelectSeq(all, kept)


(***************************************************************************)
(* Deduplicator inputs: lists of at most MaxRecords records drawn from a   *)
(* pool of scraped records.                                                *)
(***************************************************************************)
MaxRecords == 3

RecordLists ==
    UNION { [1..n -> RecordPool] : n \in 0..MaxRecords }

InitDedup ==
    /\ scholarships \in RecordLists
    /\ mark_only \in BOOLEAN
    /\ dd_pc = "start"
    /\ completeness = <<>> /\ duplicate_pairs = <<>> /\ pending = {}
    /\ parent = <<>> /\ dedup_out = <<>>
    /\ filler = 0 /\ first_pass = None /\ dup_groups = None
    /\ OnlyDedup

\* lines 220-230: the empty input returns at once; find_duplicates raises on
\* a title that is no str; else the locals are set up
DedupStart ==
    /\ dd_pc = "start"
    /\ IF scholarships = <<>> /\ filler = 0
       THEN /\ dd_pc' = "done"
            /\ UNCHANGED <<completeness, duplicate_pairs, pending, parent>>
       ELSE IF BadTitles(scholarships) # {}
       THEN /\ dd_pc' = "raised"
            /\ completeness' = [i \in 1..Len(scholarships) |->
                                   _calculate_completeness(scholarships[i])]
            /\ UNCHANGED <<duplicate_pairs, pending, parent>>
       ELSE /\ dd_pc' = "union"
            /\ completeness' = [i \in 1..Len(scholarships) |->
                                   _calculate_completeness(scholarships[i])]
            /\ duplicate_pairs' = FindDuplicates(scholarships, filler)
            /\ pending' = 1..Len(duplicate_pairs')
            /\ parent' = [i \in 1..Len(scholarships) |-> i]
    /\ UNCHANGED <<scholarships, mark_only, dedup_out, filler, first_pass,
                   dup_groups, notDedupVars>>

\* lines 247-248: one union.  The code takes the pairs in list order; the
\* model takes them in any order, of which the list order is one.
DedupUnion ==
    /\ dd_pc = "union"
    /\ \E k \in pending :
          /\ parent' = Union(parent, completeness,
                             duplicate_pairs[k][1], duplicate_pairs[k][2])
          /\ pending' = pending \ {k}
    /\ UNCHANGED <<scholarships, mark_only, dd_pc, completeness,
                   duplicate_pairs, dedup_out, filler, first_pass,
                   dup_groups, notDedupVars>>

RECURSIVE CompressAll(_, _)
\* parent after find(i) for i = k, k + 1, ... (the finds of the marking loop)
CompressAll(par, k) ==
    IF k > Len(par) THEN par ELSE CompressAll(Compressed(par, k), k + 1)

\* the input list after deduplicate: the marking loop writes is_duplicate and
\* duplicate_of onto s = scholarship.copy() (line 253), never onto scholarship
InputsAfterDeduplicate(recs) == recs

\* lines 250-271: mark every record and return
DedupMark ==
    /\ dd_pc = "union"
    /\ pending = {}
    /\ dedup_out' = Marked(scholarships, parent, mark_only)
    /\ scholarships' = InputsAfterDeduplicate(scholarships)
    /\ parent' = CompressAll(parent, 1)
    /\ dd_pc' = "done"
    /\ UNCHANGED <<mark_only, completeness, duplicate_pairs, pending,
                   filler, first_pass, dup_groups, notDedupVars>>

NextDedup == DedupStart \/ DedupUnion \/ DedupMark

SpecDedup == InitDedup /\ [][NextDedup]_vars


(***************************************************************************)
(* Claims about Deduplicator.deduplicate (checked under SpecDedup)         *)
(***************************************************************************)
Indices == 1..Len(scholarships)
Grouping == dd_pc \in {"union", "done"}
Returned == dd_pc = "done"

\* the duplicate pairs unioned so far
Unioned ==
    {duplicate_pairs[k] : k \in (1..Len(duplicate_pairs)) \ pending}

RECURSIVE ReachFrom(_, _)
\* the records connected to those of S by the edges
ReachFrom(S, edges) ==
    LET more == S \cup {e[2] : e \in {d \in edges : d[1] \in S}}
                  \cup {e[1] : e \in {d \in edges : d[2] \in S}}
    IN  IF more = S THEN S ELSE ReachFrom(more, edges)

\* the duplicate group of record i: its connected component in the graph of
\* the duplicate pairs unioned so far
Group(i) == ReachFrom({i}, Unioned)
Groups == {Group(i) : i \in Indices}

\* C5: whatever the order of the unions, the union-find classes are the
\* connected components of the duplicate-pair graph, they partition the
\* record indices, and every group, singletons included, holds exactly one
\* root; after deduplicate(records, mark_only = true) every group holds
\* exactly one record with is_duplicate = false.
C5_GroupsPartitionOneCanonical ==
    Grouping =>
        /\ UNION Groups = Indices
        /\ \A g \in Groups : \A h \in Groups : g # h => g \cap h = {}
        /\ \A i \in Indices : \A j \in Indices :
              (Find(parent, i) = Find(parent, j)) <=> (j \in Group(i))
        /\ \A g \in Groups : Cardinality({j \in g : parent[j] = j}) = 1
        /\ (Returned /\ mark_only) =>
              /\ Len(dedup_out) = Len(scholarships)
              /\ \A g \in Groups :
                    Cardinality({j \in g : ~dedup_out[j].is_duplicate}) = 1

\* C5 witness: a returned marking with a group of three records that took
\* two unions, or a pair next to a singleton.
C5_Witness ==
    /\ Returned /\ mark_only
    /\ Len(scholarships) = 3
    /\ \E g \in Groups : Cardinality(g) >= 2
    /\ Cardinality({k \in 1..3 : dedup_out[k].is_duplicate}) >= 1
    /\ Len(duplicate_pairs) >= 2

\* C6: after any sequence of unions the root of every union-find set is at
\* least as complete as every record of the set, so the record returned with
\* is_duplicate = false has the greatest completeness of its group.
C6_CanonicalMostComplete ==
    Grouping =>
        /\ \A i \in Indices :
              completeness[Find(parent, i)] >= completeness[i]
        /\ Returned =>
              \A k \in 1..Len(dedup_out) :
                  ~dedup_out[k].is_duplicate =>
                      \A j \in Group(dedup_out[k].index) :
                          _calculate_completeness(dedup_out[k].record)
                              >= _calculate_completeness(scholarships[j])

\* C6 witness: a returned group whose canonical record is strictly more
\* complete than another member that comes before it in the input.
C6_Witness ==
    /\ Returned
    /\ \E k \in 1..Len(dedup_out) : \E j \in Indices :
          /\ ~dedup_out[k].is_duplicate
          /\ j \in Group(dedup_out[k].index)
          /\ j < dedup_out[k].index
          /\ completeness[j] < completeness[dedup_out[k].index]

\* the suffix tokens the claim names
COMMON_SUFFIX_TOKENS ==
    <<"scholarship", "grant", "award", "fellowship", "program", "fund",
      "foundation">>

RECURSIVE WithoutTrailingTokens(_)
\* a lowercased title with every trailing common suffix token removed
WithoutTrailingTokens(t) ==
    IF \E k \in 1..Len(COMMON_SUFFIX_TOKENS) :
           EndsWith(t, " " \o COMMON_SUFFIX_TOKENS[k])
    THEN LET k == CHOOSE k \in 1..Len(COMMON_SUFFIX_TOKENS) :
                      EndsWith(t, " " \o COMMON_SUFFIX_TOKENS[k])
         IN  WithoutTrailingTokens(
                 Strip(SubSeq(t, 1, Len(t) - Len(COMMON_SUFFIX_TOKENS[k]) - 1)))
    ELSE t

\* two str titles that differ only in letter case and in trailing common
\* suffix tokens
SameButCaseAndSuffixes(t1, t2) ==
    /\ t1.kind = "str" /\ t2.kind = "str" /\ t1.s # "" /\ t2.s # ""
    /\ WithoutTrailingTokens(Strip(Lower(t1.s)))
          = WithoutTrailingTokens(Strip(Lower(t2.s)))

\* C7 (as claimed): titles that differ only in letter case and in trailing
\* common suffix tokens normalize to the same string and fingerprint, are
\* reported as a duplicate pair and are grouped by deduplicate.
C7_SuffixVariantsGrouped ==
    Returned =>
        \A i \in Indices : \A j \in Indices :
            (i < j /\ SameButCaseAndSuffixes(scholarships[i].title,
                                             scholarships[j].title)) =>
                /\ _normalize_title(scholarships[i].title)
                      = _normalize_title(scholarships[j].title)
                /\ _title_fingerprint(scholarships[i].title)
                      = _title_fingerprint(scholarships[j].title)
                /\ \E k \in 1..Len(duplicate_pairs) :
                      duplicate_pairs[k] = <<i, j>>
                /\ Find(parent, i) = Find(parent, j)

\* C8: with mark_only = true deduplicate returns one annotated record per
\* input record in input order; with mark_only = false it returns exactly
\* the records whose is_duplicate is false, one per duplicate group, in
\* their original relative order.
C8_MarkOnlyKeepsAllElseCanonicalOnly ==
    Returned =>
        /\ \A k \in 1..Len(dedup_out) :
              dedup_out[k].record = scholarships[dedup_out[k].index]
        /\ mark_only =>
              /\ Len(dedup_out) = Len(scholarships)
              /\ \A k \in 1..Len(dedup_out) : dedup_out[k].index = k
        /\ ~mark_only =>
              /\ \A k \in 1..Len(dedup_out) : ~dedup_out[k].is_duplicate
              /\ \A k \in 1..(Len(dedup_out) - 1) :
                    dedup_out[k].index < dedup_out[k + 1].index
              /\ {dedup_out[k].index : k \in 1..Len(dedup_out)}
                    = {i \in Indices : Find(parent, i) = i}
              /\ Len(dedup_out) = Cardinality(Groups)

\* C8 witness: mark_only = false dropped a duplicate and kept two records.
C8_Witness ==
    /\ Returned /\ ~mark_only
    /\ Len(dedup_out) = 2
    /\ Len(scholarships) = 3
    /\ dedup_out[2].index = 3

\* a title that cannot be processed: missing, null, empty or no string
Unprocessable(title) ==
    title.kind # "str" \/ title.s = ""

\* the list without its i-th record, and a position of it in the full list
Without(recs, i) ==
    [k \in 1..(Len(recs) - 1) |-> IF k < i THEN recs[k] ELSE recs[k + 1]]
Unshift(k, i) == IF k < i THEN k ELSE k + 1

\* C9 (as claimed): a record whose title cannot be processed never aborts
\* deduplicate; the record ends up a singleton with is_duplicate = false and
\* the other records are grouped as they are without it.
C9_BadTitleNeverAborts ==
    \A i \in Indices :
        Unprocessable(scholarships[i].title) =>
            /\ dd_pc # "raised"
            /\ (Returned /\ mark_only) =>
                  /\ ~dedup_out[i].is_duplicate
                  /\ Group(i) = {i}
                  /\ BadTitles(Without(scholarships, i)) = {} =>
                        {duplicate_pairs[k] : k \in 1..Len(duplicate_pairs)}
                          = LET rest == find_duplicates(Without(scholarships, i))
                            IN  {<<Unshift(rest[k][1], i), Unshift(rest[k][2], i)>> :
                                    k \in 1..Len(rest)}

\* what holds of C9: a title that is missing, null or empty (falsy) leaves
\* its record a singleton and the grouping of the others untouched
C9_FalsyTitleIsSingleton ==
    \A i \in Indices :
        (~Truthy(GetTitle(scholarships[i])) /\ Returned /\ mark_only) =>
            /\ ~dedup_out[i].is_duplicate
            /\ Group(i) = {i}
            /\ {duplicate_pairs[k] : k \in 1..Len(duplicate_pairs)}
                  = LET rest == find_duplicates(Without(scholarships, i))
                    IN  {<<Unshift(rest[k][1], i), Unshift(rest[k][2], i)>> :
                            k \in 1..Len(rest)}

(***************************************************************************)
(* FitScorer (src/matching/scorer.py).  A float in [0, 1] is an integer    *)
(* number of millionths (ONE is 1.0); the weighted components and the      *)
(* total of a FitScore are in hundredths of a millionth, the weights being *)
(* integers in hundredths.  Dates are day ordinals.                        *)
(***************************************************************************)
ONE == 1000000
HALF == ONE \div 2

WEIGHT_CRITERIA == 35
WEIGHT_DEADLINE == 20
WEIGHT_VALUE == 25
WEIGHT_COMPETITION == 20
DEFAULT_EFFORT == 5
DEADLINE_HALF_LIFE_DAYS == 30

\* min(1.0, max(0.0, x))
Clamp01(x) == Min2(ONE, Max2(0, x))

\* a deadline value of a scholarship dict: None, a date, or a str that is
\* no ISO date
NoDeadline == [kind |-> "none", day |-> 0]
DateValue(d) == [kind |-> "date", day |-> d]
TextValue == [kind |-> "text", day |-> 0]

\* FitScorer._parse_deadline: the date, or None
_parse_deadline(deadline_value) ==
    IF deadline_value.kind = "date" THEN Some(deadline_value.day) ELSE None

\* FitScorer._calculate_criteria_match
_calculate_criteria_match(match_percentage) ==
    Clamp01((match_percentage.num * (ONE \div 100)) \div match_percentage.den)

\* math.exp(-math.log(2) / 30 * k) for k = 0..29, in millionths
DecayTable ==
    <<1000000, 977160, 954842, 933033, 911722, 890899, 870551, 850667,
      831238, 812252, 793701, 775572, 757858, 740549, 723635, 707107,
      690956, 675175, 659754, 644685, 629961, 615572, 601513, 587774,
      574349, 561231, 548412, 535887, 523647, 511687>>

RECURSIVE Pow2(_)
Pow2(k) == IF k = 0 THEN 1 ELSE 2 * Pow2(k - 1)

\* the decay of a run of whole half-lives: 1.0 whatever the remainder, then
\* halved once per half-life
DecayByHalfLives(days_until) ==
    IF days_until \div DEADLINE_HALF_LIFE_DAYS >= 20 THEN 0
    ELSE ONE \div Pow2(days_until \div DEADLINE_HALF_LIFE_DAYS)

\* math.exp(-decay_rate * days_until) for days_until > 0.  After twenty
\* half-lives the value is below one millionth; the float itself is 0.0
\* from 32251 days on, where math.exp underflows
Decay(days_until) ==
    IF days_until \div DEADLINE_HALF_LIFE_DAYS >= 20 THEN 0
    ELSE DecayTable[(days_until % DEADLINE_HALF_LIFE_DAYS) + 1]
            \div Pow2(days_until \div DEADLINE_HALF_LIFE_DAYS)

\* FitScorer._calculate_deadline_urgency
_calculate_deadline_urgency(days_until) ==
    IF IsNone(days_until) THEN HALF
    ELSE IF Val(days_until) < 0 THEN 0
    ELSE IF Val(days_until) = 0 THEN ONE
    ELSE Clamp01(Decay(Val(days_until)))

\* math.log10 of the digits 1..9, in millionths
Log10Digits ==
    <<0, 301030, 477121, 602060, 698970, 778151, 845098, 903090, 954243>>

RECURSIVE Log10(_)
\* math.log10(n) in millionths for n = d * 10^e with one digit d
Log10(n) ==
    IF n >= 10 THEN ONE + Log10(n \div 10) ELSE Log10Digits[n]

\* FitScorer._calculate_value_density
_calculate_value_density(amount_cents, effort_score) ==
    IF IsNone(amount_cents) THEN HALF
    ELSE LET effort == IF ~IsNone(effort_score) /\ Val(effort_score) # 0
                       THEN Val(effort_score) ELSE DEFAULT_EFFORT
         IN  IF Val(amount_cents) <= 0 THEN 0
             ELSE LET log_amount == Log10(Val(amount_cents)) - 2 * ONE
                  IN  Clamp01((log_amount * (11 - effort)) \div 45)

\* FitScorer._calculate_competition_factor
_calculate_competition_factor(competition_score) ==
    IF IsNone(competition_score) THEN HALF
    ELSE ((11 - Val(competition_score)) * ONE) \div 10

\* a or b on Optional[int]: None and 0 are falsy
PyOr(a, b) == IF ~IsNone(a) /\ Val(a) # 0 THEN a ELSE b

\* the locals of calculate (lines 100-116)
ExtractedAmount(s) == PyOr(s.amount_max, s.amount_min)
DaysUntil(s, ref) ==
    LET deadline == _parse_deadline(s.deadline)
    IN  IF IsNone(deadline) THEN None ELSE Some(Val(deadline) - ref)
Signals(m, s, ref) ==
    [criteria_score |-> _calculate_criteria_match(m.match_percentage),
     deadline_score |-> _calculate_deadline_urgency(DaysUntil(s, ref)),
     value_score |-> _calculate_value_density(ExtractedAmount(s),
                                              s.effort_score),
     competition_score |-> _calculate_competition_factor(s.competition_score)]

\* FitScorer.calculate
calculate(m, s, ref) ==
    LET sig == Signals(m, s, ref)
    IN  [total |-> sig.criteria_score * WEIGHT_CRITERIA
                   + sig.deadline_score * WEIGHT_DEADLINE
                   + sig.value_score * WEIGHT_VALUE
                   + sig.competition_score * WEIGHT_COMPETITION,
         criteria_match |-> sig.criteria_score * WEIGHT_CRITERIA,
         deadline_urgency |-> sig.deadline_score * WEIGHT_DEADLINE,
         value_density |-> sig.value_score * WEIGHT_VALUE,
         competition_factor |-> sig.competition_score * WEIGHT_COMPETITION,
         match_percentage |-> m.match_percentage,
         days_until_deadline |-> DaysUntil(s, ref),
         amount |-> ExtractedAmount(s),
         effort_score |-> s.effort_score,
         competition_score |-> s.competition_score]

(***************************************************************************)
(* FitScorer inputs                                                        *)
(***************************************************************************)
\* the match percentages match computes for at most two requirements
MatchPercentages ==
    {MatchPercentage(c[1], c[2], c[3]) :
        c \in {x \in (0..2) \X (0..2) \X (0..2) : x[1] + x[2] <= x[3]}}
MatchResults ==
    [eligible : BOOLEAN, match_percentage : MatchPercentages]

ReferenceDates == {738000}
DaysOut == {-1, 0, 1, 30, 60, 400}
DeadlineValues ==
    {NoDeadline, TextValue}
    \cup {DateValue(r + d) : r \in ReferenceDates, d \in DaysOut}
AmountsMax == {None, Some(0), Some(100000), Some(5000000)}
AmountsMin == {None, Some(0), Some(-500), Some(20000)}
EffortScores == {None, Some(0), Some(1), Some(10), Some(15)}
CompetitionScores ==
    {None, Some(-3), Some(0), Some(1), Some(5), Some(10), Some(11), Some(12)}
ScoredScholarships ==
    [deadline : DeadlineValues, amount_max : AmountsMax,
     amount_min : AmountsMin, effort_score : EffortScores,
     competition_score : CompetitionScores]

InitScore ==
    /\ match_result \in {Some(m) : m \in MatchResults}
    /\ scholarship \in {Some(s) : s \in ScoredScholarships}
    /\ reference_date \in {Some(r) : r \in ReferenceDates}
    /\ fit_score = None
    /\ OnlyScore

\* one call of calculate
CallCalculate ==
    /\ fit_score = None
    /\ fit_score' = Some(calculate(Val(match_result), Val(scholarship),
                                   Val(reference_date)))
    /\ UNCHANGED <<match_result, scholarship, reference_date, notScoreVars>>

NextScore == CallCalculate

SpecScore == InitScore /\ [][NextScore]_vars

(***************************************************************************)
(* Claims about FitScorer.calculate (checked under SpecScore)              *)
(***************************************************************************)
Scored == fit_score # None
Unit(x) == 0 <= x /\ x <= ONE

\* C10 (as claimed): whatever the amount, deadline, effort_score and
\* competition_score of the record, each of the four signals of calculate
\* lies in [0, 1] before weighting and the total fit score lies in [0, 1].
C10_SignalsAndTotalInUnitRange ==
    Scored =>
        LET sig == Signals(Val(match_result), Val(scholarship),
                           Val(reference_date))
        IN  /\ Unit(sig.criteria_score)
            /\ Unit(sig.deadline_score)
            /\ Unit(sig.value_score)
            /\ Unit(sig.competition_score)
            /\ 0 <= Val(fit_score).total
            /\ Val(fit_score).total <= 100 * ONE

\* what holds of C10: the criteria, deadline and value signals are always
\* in [0, 1]; the competition signal and the total are when
\* competition_score is absent or in 1..11
C10_InRangeForScaleCompetition ==
    Scored =>
        LET sig == Signals(Val(match_result), Val(scholarship),
                           Val(reference_date))
            competition == Val(scholarship).competition_score
        IN  /\ Unit(sig.criteria_score)
            /\ Unit(sig.deadline_score)
            /\ Unit(sig.value_score)
            /\ (IsNone(competition) \/ Val(competition) \in 1..11) =>
                  /\ Unit(sig.competition_score)
                  /\ 0 <= Val(fit_score).total
                  /\ Val(fit_score).total <= 100 * ONE

(***************************************************************************)
(* FitScorer.score_batch and FitScorer.rank_scholarships                   *)
(***************************************************************************)
\* round(x / unit) with Python's rounding of a half to the even neighbour
RoundTo(x, unit) ==
    LET q == x \div unit
        r == x % unit
    IN  IF 2 * r > unit \/ (2 * r = unit /\ q % 2 = 1) THEN q + 1 ELSE q

\* FitScore.to_dict: the total and the components in thousandths, the match
\* percentage in tenths
FitScoreToDict(score) ==
    [total |-> RoundTo(score.total, ONE \div 10),
     breakdown |->
        [criteria_match |-> RoundTo(score.criteria_match, ONE \div 10),
         deadline_urgency |-> RoundTo(score.deadline_urgency, ONE \div 10),
         value_density |-> RoundTo(score.value_density, ONE \div 10),
         competition_factor |->
             RoundTo(score.competition_factor, ONE \div 10)],
     raw_values |->
        [match_percentage |-> RoundTo(10 * score.match_percentage.num,
                                      score.match_percentage.den),
         days_until_deadline |-> score.days_until_deadline,
         amount_cents |-> score.amount,
         effort_score |-> score.effort_score,
         competition_score |-> score.competition_score]]

\* MatchResult.to_dict, for the fields of a MatchResult the scorer reads
MatchResultToDict(m) ==
    [eligible |-> m.eligible, match_percentage |-> m.match_percentage]

\* a length test that lets the shorter list of match results through
ScoreBatchRaisesIfLonger(match_results, recs) ==
    Len(match_results) > Len(recs)

\* score_batch raises ValueError (lines 293-294)
ScoreBatchRaises(match_results, recs) == Len(match_results) # Len(recs)

\* FitScorer.score_batch when it does not raise: one score per pair of
\* zip(match_results, scholarships)
score_batch(match_results, recs, ref) ==
    [i \in 1..Min2(Len(match_results), Len(recs)) |->
        calculate(match_results[i], recs[i], ref)]

\* `if match_results` on an Optional list: None and [] are falsy
TruthyList(o) == ~IsNone(o) /\ Len(Val(o)) > 0

\* the positions zip(scholarships, scores) yields
Zipped(recs, scores) == 1..Min2(Len(recs), Len(scores))

\* match_results[i] raises IndexError in the eligibility test (line 327)
RankRaises(recs, scores, eligible_only, match_results) ==
    /\ eligible_only /\ TruthyList(match_results)
    /\ \E i \in Zipped(recs, scores) : i > Len(Val(match_results))

\* the copy of record i with the score attached (lines 331-335); index is
\* the position i of the record in the input, kept to tell the copies apart
RankedCopy(recs, scores, match_results, i) ==
    [index |-> i,
     record |-> recs[i],
     fit_score |-> scores[i].total,
     fit_score_breakdown |-> FitScoreToDict(scores[i]),
     match_result |->
        IF TruthyList(match_results) /\ i <= Len(Val(match_results))
        THEN Some(MatchResultToDict(Val(match_results)[i])) ELSE None]

\* the loop without the eligibility test: every zipped record is kept
CombinedUnfiltered(recs, scores, eligible_only, match_results) ==
    [i \in Zipped(recs, scores) |->
        RankedCopy(recs, scores, match_results, i)]

\* the list combined before the sort (lines 322-337)
Combined(recs, scores, eligible_only, match_results) ==
    LET all == [i \in Zipped(recs, scores) |->
                   RankedCopy(recs, scores, match_results, i)]
        kept(c) == ~(eligible_only /\ TruthyList(match_results)
                     /\ ~Val(match_results)[c.index].eligible)
    IN  SelectSeq(all, kept)

RECURSIVE InsertDesc(_, _)
\* seq, sorted by fit_score descending, with c put after every element whose
\* fit_score is at least c's
InsertDesc(seq, c) ==
    IF seq = <<>> THEN <<c>>
    ELSE IF Head(seq).fit_score >= c.fit_score
         THEN <<Head(seq)>> \o InsertDesc(Tail(seq), c)
         ELSE <<c>> \o seq

RECURSIVE SortedAscending(_)
\* the sort without reverse=True: ascending by fit_score
SortedAscending(seq) ==
    IF seq = <<>> THEN <<>>
    ELSE LET rest == SortedAscending(SubSeq(seq, 1, Len(seq) - 1))
             c == seq[Len(seq)]
             before == SelectSeq(rest, LAMBDA e : e.fit_score <= c.fit_score)
             after == SelectSeq(rest, LAMBDA e : e.fit_score > c.fit_score)
         IN  before \o <<c>> \o after

RECURSIVE SortedDescending(_)
\* combined.sort(key=fit_score, reverse=True): stable, descending
SortedDescending(seq) ==
    IF seq = <<>> THEN <<>>
    ELSE InsertDesc(SortedDescending(SubSeq(seq, 1, Len(seq) - 1)),
                    seq[Len(seq)])

\* the rank loop of lines 343-344
WithRanks(sorted) ==
    [k \in 1..Len(sorted) |->
        [index |-> sorted[k].index,
         record |-> sorted[k].record,
         fit_score |-> sorted[k].fit_score,
         fit_score_breakdown |-> sorted[k].fit_score_breakdown,
         match_result |-> sorted[k].match_result,
         rank |-> k]]

\* FitScorer.rank_scholarships when it does not raise
rank_scholarships(recs, scores, eligible_only, match_results) ==
    WithRanks(SortedDescending(
        Combined(recs, scores, eligible_only, match_results)))

(***************************************************************************)
(* Batch inputs: lists of at most MaxBatch scholarships and MatchResults.  *)
(***************************************************************************)
MaxBatch == 3

RankScholarshipPool ==
    { [deadline |-> DateValue(r), amount_max |-> Some(5000000),
       amount_min |-> None, effort_score |-> Some(1),
       competition_score |-> Some(1)] : r \in ReferenceDates }
    \cup
    { [deadline |-> NoDeadline, amount_max |-> None, amount_min |-> None,
       effort_score |-> None, competition_score |-> Some(5)],
      [deadline |-> TextValue, amount_max |-> Some(0),
       amount_min |-> Some(20000), effort_score |-> Some(10),
       competition_score |-> Some(10)] }

RankMatchPool ==
    { [eligible |-> TRUE, match_percentage |-> MatchPercentage(1, 0, 1)],
      [eligible |-> FALSE, match_percentage |-> MatchPercentage(0, 1, 1)] }

ListsOf(pool) == UNION { [1..n -> pool] : n \in 0..MaxBatch }

\* the lists a caller may pass for a list: the list itself, the list without
\* its last element and the list with one element more
Misaligned(list) ==
    IF list = <<>> THEN {list}
    ELSE {list, SubSeq(list, 1, Len(list) - 1), list \o <<list[1]>>}

InitRank ==
    /\ sb_match_results \in ListsOf(RankMatchPool)
    /\ sb_scholarships \in ListsOf(RankScholarshipPool)
    /\ sb_scores = <<>>
    /\ rk_pc = "start"
    /\ rk_args = None
    /\ rk_out = <<>>
    /\ OnlyRank

\* one call of score_batch
CallScoreBatch ==
    /\ rk_pc = "start"
    /\ IF ScoreBatchRaises(sb_match_results, sb_scholarships)
       THEN rk_pc' = "batch_raised" /\ sb_scores' = sb_scores
       ELSE /\ rk_pc' = "scored"
            /\ \E ref \in ReferenceDates :
                  sb_scores' = score_batch(sb_match_results, sb_scholarships,
                                           ref)
    /\ UNCHANGED <<sb_match_results, sb_scholarships, rk_args, rk_out,
                   notRankVars>>

\* the input list after rank_scholarships: fit_score, fit_score_breakdown,
\* match_result and rank are written onto ranked = scholarship.copy()
\* (line 331), never onto scholarship
InputsAfterRank(recs) == recs

\* one call of rank_scholarships on the scholarships, with the scores and
\* the match results, or with lists that do not line up with them
CallRank ==
    /\ rk_pc = "scored"
    /\ \E scores \in Misaligned(sb_scores) :
       \E eligible_only \in BOOLEAN :
       \E match_results \in
              {None} \cup {Some(l) : l \in Misaligned(sb_match_results)} :
          /\ rk_args' = Some([scores |-> scores,
                              eligible_only |-> eligible_only,
                              match_results |-> match_results])
          /\ IF RankRaises(sb_scholarships, scores, eligible_only,
                           match_results)
             THEN rk_pc' = "rank_raised" /\ rk_out' = rk_out
             ELSE /\ rk_pc' = "ranked"
                  /\ rk_out' = rank_scholarships(sb_scholarships, scores,
                                                 eligible_only, match_results)
    /\ sb_scholarships' = InputsAfterRank(sb_scholarships)
    /\ UNCHANGED <<sb_match_results, sb_scores, notRankVars>>

NextRank == CallScoreBatch \/ CallRank

SpecRank == InitRank /\ [][NextRank]_vars

(***************************************************************************)
(* Claims about score_batch and rank_scholarships (checked under SpecRank) *)
(***************************************************************************)
Ranked == rk_pc = "ranked"
RankCalled == rk_pc \in {"ranked", "rank_raised"}
Args == Val(rk_args)

\* the lists of the call of rank_scholarships line up
LinedUp ==
    /\ Len(Args.scores) = Len(sb_scholarships)
    /\ ~IsNone(Args.match_results) =>
          Len(Val(Args.match_results)) = Len(sb_scholarships)

\* C11: the list rank_scholarships returns is sorted by fit_score in
\* non-increasing order and the record at position k has rank k, ties in
\* fit_score included.
C11_SortedWithContiguousRanks ==
    Ranked =>
        /\ \A k \in 1..(Len(rk_out) - 1) :
              rk_out[k].fit_score >= rk_out[k + 1].fit_score
        /\ \A k \in 1..Len(rk_out) : rk_out[k].rank = k

\* C11 witness: three ranked records, two of them with the same fit_score
\* and one with a greater fit_score that came later in the input.
C11_Witness ==
    /\ Ranked
    /\ Len(rk_out) = 3
    /\ \E k \in 1..2 : rk_out[k].fit_score = rk_out[k + 1].fit_score
    /\ \E k \in 1..2 : /\ rk_out[k].fit_score > rk_out[k + 1].fit_score
                       /\ rk_out[k].index > rk_out[k + 1].index

\* the input positions of the records rank_scholarships returned
RankedIndices == {rk_out[k].index : k \in 1..Len(rk_out)}

\* every returned record is the copy of one input record, none twice
EachOnce(indices) ==
    /\ RankedIndices = indices
    /\ Len(rk_out) = Cardinality(indices)
    /\ \A k \in 1..Len(rk_out) :
          rk_out[k].record = sb_scholarships[rk_out[k].index]

\* C12: for lists that line up, rank_scholarships with eligible_only = true
\* and paired match_results returns every record whose MatchResult is
\* eligible exactly once and no other record; with eligible_only = false it
\* returns every input record exactly once.
C12_EligibleOnlyFilters ==
    (Ranked /\ LinedUp) =>
        /\ (Args.eligible_only /\ ~IsNone(Args.match_results)) =>
              EachOnce({i \in 1..Len(sb_scholarships) :
                           Val(Args.match_results)[i].eligible})
        /\ ~Args.eligible_only => EachOnce(1..Len(sb_scholarships))

\* C12 witness: three records with paired match results, of which the
\* second is not eligible and is left out.
C12_Witness ==
    /\ Ranked /\ LinedUp
    /\ Args.eligible_only /\ ~IsNone(Args.match_results)
    /\ Len(sb_scholarships) = 3
    /\ ~Val(Args.match_results)[2].eligible
    /\ RankedIndices = {1, 3}

\* C13: score_batch raises and returns no scores whenever its two lists
\* differ in length; when they have the same length it returns one FitScore
\* per index i, computed from match_results[i] and scholarships[i], in input
\* order.
C13_ScoreBatchAlignedOrRaises ==
    /\ rk_pc = "batch_raised" =>
          Len(sb_match_results) # Len(sb_scholarships) /\ sb_scores = <<>>
    /\ rk_pc \in {"scored", "ranked", "rank_raised"} =>
          /\ Len(sb_match_results) = Len(sb_scholarships)
          /\ Len(sb_scores) = Len(sb_scholarships)
          /\ \E ref \in ReferenceDates :
                \A i \in 1..Len(sb_scholarships) :
                    sb_scores[i] = calculate(sb_match_results[i],
                                             sb_scholarships[i], ref)

\* C13 witness: score_batch raised on two match results for three
\* scholarships.
C13_Witness ==
    /\ rk_pc = "batch_raised"
    /\ Len(sb_match_results) = 2
    /\ Len(sb_scholarships) = 3

\* the parallel lists of the call of rank_scholarships do not line up
Misused ==
    \/ Len(Args.scores) # Len(sb_scholarships)
    \/ /\ ~IsNone(Args.match_results)
       /\ Len(Val(Args.match_results)) # Len(sb_scholarships)
    \/ Args.eligible_only /\ IsNone(Args.match_results)

\* C14 (as claimed): rank_scholarships raises whenever the scholarships and
\* the scores differ in length, or match_results is given with a different
\* length, or eligible_only = true is requested without match_results.
C14_RankRaisesOnMisalignedLists ==
    (RankCalled /\ Misused) => rk_pc = "rank_raised"

\* what holds of C14: the only misuse that raises is eligible_only = true
\* with a non-empty match_results shorter than the zipped lists
C14_RaisesOnlyOnShortMatchResults ==
    rk_pc = "rank_raised" <=>
        /\ RankCalled
        /\ Args.eligible_only /\ TruthyList(Args.match_results)
        /\ Len(Val(Args.match_results))
              < Min2(Len(sb_scholarships), Len(Args.scores))

(***************************************************************************)
(* Normalizer.normalize_amount (src/processing/normalizer.py).  Amounts    *)
(* are integers in cents; a returned pair is <<min, max>> of Optionals.    *)
(***************************************************************************)
DigitChars == "0123456789"
IsDigit(c) == \E d \in 1..10 : CharAt(DigitChars, d) = c
DigitSet == {CharAt(DigitChars, d) : d \in 1..10}
DigitValue(c) == (CHOOSE d \in 1..10 : CharAt(DigitChars, d) = c) - 1

\* a character of the class [\d,]
IsAmountChar(c) == IsDigit(c) \/ c = ","

RECURSIVE RunEnd(_, _)
\* the position after the longest run of [\d,] that starts at i
RunEnd(s, i) ==
    IF i <= Len(s) /\ IsAmountChar(CharAt(s, i)) THEN RunEnd(s, i + 1) ELSE i

\* the position after the match of [\d,]+(?:\.\d{2})? that starts at i
MatchEnd(s, i) ==
    LET e == RunEnd(s, i)
    IN  IF /\ e + 2 <= Len(s)
           /\ CharAt(s, e) = "."
           /\ IsDigit(CharAt(s, e + 1))
           /\ IsDigit(CharAt(s, e + 2))
        THEN e + 3 ELSE e

RECURSIVE FindAmounts(_, _, _)
\* re.findall from position i on, of r'\$[\d,]+(?:\.\d{2})?' when dollar,
\* else of r'[\d,]+(?:\.\d{2})?'
FindAmounts(s, i, dollar) ==
    IF i > Len(s) THEN <<>>
    ELSE LET from == IF dollar THEN i + 1 ELSE i
             here == /\ dollar => CharAt(s, i) = "$"
                     /\ from <= Len(s)
                     /\ IsAmountChar(CharAt(s, from))
         IN  IF here
             THEN <<SubSeq(s, i, MatchEnd(s, from) - 1)>>
                  \o FindAmounts(s, MatchEnd(s, from), dollar)
             ELSE FindAmounts(s, i + 1, dollar)

RECURSIVE Clean(_)
\* amt.replace('$', '').replace(',', '')
Clean(amt) ==
    IF amt = "" THEN ""
    ELSE IF CharAt(amt, 1) \in {"$", ","} THEN Clean(SubSeq(amt, 2, Len(amt)))
    ELSE CharAt(amt, 1) \o Clean(SubSeq(amt, 2, Len(amt)))

RECURSIVE StrToNat(_)
\* int(digits)
StrToNat(digits) ==
    IF digits = "" THEN 0
    ELSE 10 * StrToNat(SubSeq(digits, 1, Len(digits) - 1))
         + DigitValue(CharAt(digits, Len(digits)))

\* lines 127-135: the cents of a cleaned amount, None when int('') raises
\* ValueError.  float(clean) * 100 is exact for the fractions .00 .25 .50
\* .75, the ones the inputs use.
ParseCents(clean) ==
    IF EndsWith(SubSeq(clean, 1, Len(clean) - 2), ".")
    THEN Some(StrToNat(SubSeq(clean, 1, Len(clean) - 3)) * 100
              + StrToNat(SubSeq(clean, Len(clean) - 1, Len(clean))))
    ELSE IF clean = "" THEN None
    ELSE Some(StrToNat(clean) * 100)

RECURSIVE ParseAll(_)
\* the list parsed of lines 123-135
ParseAll(amounts) ==
    IF amounts = <<>> THEN <<>>
    ELSE LET cents == ParseCents(Clean(Head(amounts)))
         IN  (IF IsNone(cents) THEN <<>> ELSE <<Val(cents)>>)
             \o ParseAll(Tail(amounts))

\* lines 112-135: the amounts found in the lowercased text, in cents
ParsedAmounts(text) ==
    LET dollars == FindAmounts(text, 1, TRUE)
    IN  ParseAll(IF dollars # <<>> THEN dollars
                 ELSE FindAmounts(text, 1, FALSE))

RECURSIVE MinOf(_)
MinOf(seq) ==
    IF Len(seq) = 1 THEN seq[1] ELSE Min2(seq[1], MinOf(Tail(seq)))
RECURSIVE MaxOf(_)
MaxOf(seq) ==
    IF Len(seq) = 1 THEN seq[1] ELSE Max2(seq[1], MaxOf(Tail(seq)))

\* "up to" or "maximum" is in the text
HasUpperQualifier(text) == StrIn("up to", text) \/ StrIn("maximum", text)

\* the qualifier tested before the number of amounts
AmountPairQualifierFirst(text, parsed) ==
    IF parsed = <<>> THEN <<None, None>>
    ELSE IF HasUpperQualifier(text) THEN <<None, Some(MaxOf(parsed))>>
    ELSE <<Some(MinOf(parsed)), Some(MaxOf(parsed))>>

\* the range returned in the order of the text
AmountPairInTextOrder(text, parsed) ==
    IF parsed = <<>> THEN <<None, None>>
    ELSE IF Len(parsed) = 1
    THEN IF HasUpperQualifier(text) THEN <<None, Some(parsed[1])>>
         ELSE <<Some(parsed[1]), Some(parsed[1])>>
    ELSE <<Some(parsed[1]), Some(parsed[Len(parsed)])>>

\* lines 137-148: the pair for the parsed amounts
AmountPair(text, parsed) ==
    IF parsed = <<>> THEN <<None, None>>
    ELSE IF Len(parsed) = 1
    THEN IF HasUpperQualifier(text) THEN <<None, Some(parsed[1])>>
         ELSE <<Some(parsed[1]), Some(parsed[1])>>
    ELSE <<Some(MinOf(parsed)), Some(MaxOf(parsed))>>

\* Normalizer.normalize_amount of an Optional[str]
normalize_amount(amount) ==
    IF ~TruthyStr(amount) THEN <<None, None>>
    ELSE LET text == Lower(Strip(Val(amount)))
         IN  IF StrIn("varies", text) \/ StrIn("variable", text)
             THEN <<None, None>>
             ELSE AmountPair(text, ParsedAmounts(text))

(***************************************************************************)
(* normalize_amount inputs: texts put together from a qualifier, a first   *)
(* amount and a remainder.                                                 *)
(***************************************************************************)
AmountPrefixes == {"", "Up to ", "MAXIMUM ", "Varies", " "}
AmountFirsts == {"", "$1,000", "$10,000", "$5,000.50", "2500", "$,", "TBD"}
AmountRests ==
    {"", " - $5,000", " to 500", "/month", " (variable)",
     " or $250.25 or $7"}
AmountTexts ==
    {p \o f \o r : p \in AmountPrefixes, f \in AmountFirsts,
                   r \in AmountRests}

InitAmount ==
    /\ amount_str \in {None} \cup {Some(t) : t \in AmountTexts}
    /\ amount_out = None
    /\ OnlyAmount

\* one call of normalize_amount
CallNormalizeAmount ==
    /\ amount_out = None
    /\ amount_out' = Some(normalize_amount(amount_str))
    /\ UNCHANGED <<amount_str, notAmountVars>>

NextAmount == CallNormalizeAmount

SpecAmount == InitAmount /\ [][NextAmount]_vars

(***************************************************************************)
(* Claims about normalize_amount (checked under SpecAmount)                *)
(***************************************************************************)
AmountCalled == amount_out # None
Pair == Val(amount_out)
NoAmounts == <<None, None>>

\* the elements of a sequence
Range(seq) == {seq[k] : k \in 1..Len(seq)}

\* C18: normalize_amount decides by these cases in this order: a text with
\* "varies" or "variable" gives (null, null); a text with no amount gives
\* (null, null); exactly one amount a gives (null, a) with "up to" or
\* "maximum" and (a, a) otherwise; two or more amounts give their minimum
\* and maximum whatever the qualifier; amounts are whole dollars times 100:
\* "$1,000 - $5,000" gives (100000, 500000), "Up to $10,000" gives
\* (null, 1000000) and "Varies" gives (null, null).
C18_AmountCasesInOrder ==
    AmountCalled =>
        IF ~TruthyStr(amount_str) THEN Pair = NoAmounts
        ELSE LET text == Lower(Strip(Val(amount_str)))
                 parsed == ParsedAmounts(text)
                 varies == StrIn("varies", text) \/ StrIn("variable", text)
             IN  /\ varies => Pair = NoAmounts
                 /\ (~varies /\ parsed = <<>>) => Pair = NoAmounts
                 /\ (~varies /\ Len(parsed) = 1) =>
                       Pair = IF HasUpperQualifier(text)
                              THEN <<None, Some(parsed[1])>>
                              ELSE <<Some(parsed[1]), Some(parsed[1])>>
                 /\ (~varies /\ Len(parsed) >= 2) =>
                       /\ ~IsNone(Pair[1]) /\ ~IsNone(Pair[2])
                       /\ Val(Pair[1]) \in Range(parsed)
                       /\ Val(Pair[2]) \in Range(parsed)
                       /\ \A a \in Range(parsed) :
                             Val(Pair[1]) <= a /\ a <= Val(Pair[2])
                 /\ Val(amount_str) = "$1,000 - $5,000" =>
                       Pair = <<Some(100000), Some(500000)>>
                 /\ Val(amount_str) = "Up to $10,000" =>
                       Pair = <<None, Some(1000000)>>
                 /\ Val(amount_str) = "Varies" => Pair = NoAmounts
                 /\ Val(amount_str) = "$1,000" =>
                       Pair = <<Some(100000), Some(100000)>>

\* C18 witness: a range with an "up to" qualifier came back as the minimum
\* and the maximum of its two amounts.
C18_Witness ==
    /\ AmountCalled
    /\ amount_str = Some("Up to $1,000 - $5,000")
    /\ Pair = <<Some(100000), Some(500000)>>

\* C19: each component of the pair normalize_amount returns is null or a
\* non-negative integer number of cents, and when both are present the
\* minimum is at most the maximum.
C19_AmountsNonNegativeOrdered ==
    AmountCalled =>
        /\ \A k \in 1..2 : IsNone(Pair[k]) \/ Val(Pair[k]) \in Nat
        /\ (~IsNone(Pair[1]) /\ ~IsNone(Pair[2])) =>
              Val(Pair[1]) <= Val(Pair[2])

\* C19 witness: three amounts written from the greatest to the least came
\* back as (least, greatest).
C19_Witness ==
    /\ AmountCalled
    /\ amount_str = Some("$10,000 or $250.25 or $7")
    /\ Pair = <<Some(700), Some(1000000)>>

(***************************************************************************)
(* Normalizer.normalize_date.  A parsed date is None or Some(<<y, m, d>>). *)
(***************************************************************************)
AllDigits(s) == s # "" /\ \A i \in 1..Len(s) : IsDigit(CharAt(s, i))

RECURSIVE SplitOn(_, _)
\* s.split(sep) for a separator of one character
SplitOn(s, sep) ==
    IF ~StrIn(sep, s) THEN <<s>>
    ELSE LET i == CHOOSE i \in 1..Len(s) :
                      /\ CharAt(s, i) = sep
                      /\ \A j \in 1..(i - 1) : CharAt(s, j) # sep
         IN  <<SubSeq(s, 1, i - 1)>> \o SplitOn(SubSeq(s, i + 1, Len(s)), sep)

RECURSIVE WordsOf(_)
\* s.split(): the maximal runs without whitespace
WordsOf(s) ==
    LET t == LStrip(s)
    IN  IF t = "" THEN <<>>
        ELSE LET n == CHOOSE n \in 1..Len(t) :
                          /\ \A j \in 1..n : CharAt(t, j) \notin WhiteChars
                          /\ n = Len(t) \/ CharAt(t, n + 1) \in WhiteChars
             IN  <<SubSeq(t, 1, n)>> \o WordsOf(SubSeq(t, n + 1, Len(t)))

RECURSIVE RemoveOrdinals(_, _)
\* re.sub(r'(\d+)(st|nd|rd|th)', r'\1', s) from position i on
RemoveOrdinals(s, i) ==
    IF i > Len(s) THEN ""
    ELSE IF /\ IsDigit(CharAt(s, i))
            /\ i + 2 <= Len(s)
            /\ SubSeq(s, i + 1, i + 2) \in {"st", "nd", "rd", "th"}
         THEN CharAt(s, i) \o RemoveOrdinals(s, i + 3)
         ELSE CharAt(s, i) \o RemoveOrdinals(s, i + 1)

\* datetime(y, m, d), None when it raises ValueError
MakeDate(y, m, d) ==
    LET IsLeap == (y % 4 = 0 /\ y % 100 # 0) \/ y % 400 = 0
        DaysInMonth ==
            IF m = 2 THEN (IF IsLeap THEN 29 ELSE 28)
            ELSE IF m \in {4, 6, 9, 11} THEN 30 ELSE 31
    IN  IF y \in 1..9999 /\ m \in 1..12 /\ d \in 1..31 /\ d <= DaysInMonth
        THEN Some(<<y, m, d>>) ELSE None

\* the number of the month that the name t stands for, letter case aside:
\* a full name (%B, the first twelve keys of month_names) or an abbreviated
\* one (%b, its other keys and 'may'); None when it is no name of a month
MonthIn(full, t) ==
    LET FullMonths ==
            <<"january", "february", "march", "april", "may", "june", "july",
              "august", "september", "october", "november", "december">>
        AbbrMonths ==
            <<"jan", "feb", "mar", "apr", "may", "jun", "jul", "aug", "sep",
              "oct", "nov", "dec">>
        table == IF full THEN FullMonths ELSE AbbrMonths
    IN  IF \E m \in 1..12 : table[m] = Lower(t)
        THEN Some(CHOOSE m \in 1..12 : table[m] = Lower(t)) ELSE None

\* the formats of DATE_FORMATS
DATE_FORMATS ==
    <<"%Y-%m-%d", "%m/%d/%Y", "%m/%d/%y", "%B %d, %Y", "%B %d %Y",
      "%b %d, %Y", "%b %d %Y", "%d %B %Y", "%d %b %Y", "%Y/%m/%d",
      "%m-%d-%Y">>

\* datetime.strptime(s, fmt) for a format of DATE_FORMATS, None when it
\* raises ValueError.  The fields: %Y (four digits), %y (two digits, 69-99
\* in the 1900s), %m and %d (one or two digits, in range), %B and %b (a
\* name of a month), "%d," (a day followed by the comma).
Strptime(s, fmt) ==
    LET dash == SplitOn(s, "-")
        slash == SplitOn(s, "/")
        words == WordsOf(s)
        YearField(t) ==
            IF Len(t) = 4 /\ AllDigits(t) THEN Some(StrToNat(t)) ELSE None
        ShortYearField(t) ==
            IF Len(t) = 2 /\ AllDigits(t)
            THEN Some(IF StrToNat(t) <= 68 THEN 2000 + StrToNat(t)
                      ELSE 1900 + StrToNat(t))
            ELSE None
        MonthField(t) ==
            IF Len(t) \in 1..2 /\ AllDigits(t) /\ StrToNat(t) \in 1..12
            THEN Some(StrToNat(t)) ELSE None
        DayField(t) ==
            IF Len(t) \in 1..2 /\ AllDigits(t) /\ StrToNat(t) \in 1..31
            THEN Some(StrToNat(t)) ELSE None
        DayCommaField(t) ==
            IF EndsWith(t, ",") THEN DayField(SubSeq(t, 1, Len(t) - 1))
            ELSE None
        DateOf(y, m, d) ==
            IF IsNone(y) \/ IsNone(m) \/ IsNone(d) THEN None
            ELSE MakeDate(Val(y), Val(m), Val(d))
    IN  CASE fmt = "%Y-%m-%d" ->
               IF Len(dash) # 3 THEN None
               ELSE DateOf(YearField(dash[1]), MonthField(dash[2]),
                           DayField(dash[3]))
          [] fmt = "%m-%d-%Y" ->
               IF Len(dash) # 3 THEN None
               ELSE DateOf(YearField(dash[3]), MonthField(dash[1]),
                           DayField(dash[2]))
          [] fmt = "%m/%d/%Y" ->
               IF Len(slash) # 3 THEN None
               ELSE DateOf(YearField(slash[3]), MonthField(slash[1]),
                           DayField(slash[2]))
          [] fmt = "%m/%d/%y" ->
               IF Len(slash) # 3 THEN None
               ELSE DateOf(ShortYearField(slash[3]), MonthField(slash[1]),
                           DayField(slash[2]))
          [] fmt = "%Y/%m/%d" ->
               IF Len(slash) # 3 THEN None
               ELSE DateOf(YearField(slash[1]), MonthField(slash[2]),
                           DayField(slash[3]))
          [] fmt = "%B %d, %Y" ->
               IF Len(words) # 3 THEN None
               ELSE DateOf(YearField(words[3]), MonthIn(TRUE, words[1]),
                           DayCommaField(words[2]))
          [] fmt = "%B %d %Y" ->
               IF Len(words) # 3 THEN None
               ELSE DateOf(YearField(words[3]), MonthIn(TRUE, words[1]),
                           DayField(words[2]))
          [] fmt = "%b %d, %Y" ->
               IF Len(words) # 3 THEN None
               ELSE DateOf(YearField(words[3]), MonthIn(FALSE, words[1]),
                           DayCommaField(words[2]))
          [] fmt = "%b %d %Y" ->
               IF Len(words) # 3 THEN None
               ELSE DateOf(YearField(words[3]), MonthIn(FALSE, words[1]),
                           DayField(words[2]))
          [] fmt = "%d %B %Y" ->
               IF Len(words) # 3 THEN None
               ELSE DateOf(YearField(words[3]), MonthIn(TRUE, words[2]),
                           DayField(words[1]))
          [] fmt = "%d %b %Y" ->
               IF Len(words) # 3 THEN None
               ELSE DateOf(YearField(words[3]), MonthIn(FALSE, words[2]),
                           DayField(words[1]))

RECURSIVE NatToStr(_)
\* str(n) of a natural number
NatToStr(n) ==
    IF n < 10 THEN CharAt(DigitChars, n + 1)
    ELSE NatToStr(n \div 10) \o CharAt(DigitChars, (n % 10) + 1)

\* parsed.strftime("%Y-%m-%d") when padYear is FALSE (the C library writes
\* %Y without padding), date.isoformat() when it is TRUE (four digits)
FormatDate(dt, padYear) ==
    LET TwoDigits(n) == IF n < 10 THEN "0" \o NatToStr(n) ELSE NatToStr(n)
        FourDigits(n) ==
            IF n < 10 THEN "000" \o NatToStr(n)
            ELSE IF n < 100 THEN "00" \o NatToStr(n)
            ELSE IF n < 1000 THEN "0" \o NatToStr(n)
            ELSE NatToStr(n)
        year == IF padYear THEN FourDigits(dt[1]) ELSE NatToStr(dt[1])
    IN  year \o "-" \o TwoDigits(dt[2]) \o "-" \o TwoDigits(dt[3])

RECURSIVE FirstParsed(_, _)
\* the loop of lines 52-57 from the k-th format on: the first format that
\* parses s
FirstParsed(s, k) ==
    IF k > Len(DATE_FORMATS) THEN None
    ELSE IF ~IsNone(Strptime(s, DATE_FORMATS[k]))
         THEN Strptime(s, DATE_FORMATS[k])
         ELSE FirstParsed(s, k + 1)

RECURSIVE RunOf(_, _, _)
\* the position after the longest run of characters of the class that
\* starts at i
RunOf(s, i, class) ==
    IF i <= Len(s) /\ CharAt(s, i) \in class THEN RunOf(s, i + 1, class)
    ELSE i

\* re.search of the pattern (\w+)\s+(\d{1,2}),?\s+(\d{4}): the groups
\* <<month_str, day, year>> of the leftmost match, None when there is none
PatternSearch(s) ==
    LET PatternAt(i) ==
            LET word == RunOf(s, i, WordChars)
                day == RunOf(s, word, WhiteChars)
                comma == RunOf(s, day, DigitSet)
                hasComma == comma <= Len(s) /\ CharAt(s, comma) = ","
                space == IF hasComma THEN comma + 1 ELSE comma
                year == RunOf(s, space, WhiteChars)
            IN  IF /\ word > i
                   /\ day > word
                   /\ (comma - day) \in 1..2
                   /\ AllDigits(SubSeq(s, day, comma - 1))
                   /\ year > space
                   /\ year + 3 <= Len(s)
                   /\ AllDigits(SubSeq(s, year, year + 3))
                THEN Some(<<SubSeq(s, i, word - 1), SubSeq(s, day, comma - 1),
                            SubSeq(s, year, year + 3)>>)
                ELSE None
    IN  IF \E i \in 1..Len(s) : ~IsNone(PatternAt(i))
        THEN PatternAt(CHOOSE i \in 1..Len(s) :
                           /\ ~IsNone(PatternAt(i))
                           /\ \A j \in 1..(i - 1) : IsNone(PatternAt(j)))
        ELSE None

\* lines 61-82: the date of the pattern, None when month_names does not
\* hold the month or the date raises ValueError
PatternDate(s) ==
    LET found == PatternSearch(s)
        name == Val(found)[1]
        month == IF ~IsNone(MonthIn(TRUE, name)) THEN MonthIn(TRUE, name)
                 ELSE MonthIn(FALSE, name)
    IN  IF IsNone(found) \/ IsNone(month) THEN None
        ELSE MakeDate(StrToNat(Val(found)[3]), Val(month),
                      StrToNat(Val(found)[2]))

\* Normalizer.normalize_date of an Optional[str]: None or the ISO text
normalize_date(date_str) ==
    IF ~TruthyStr(date_str) THEN None
    ELSE LET s == RemoveOrdinals(Strip(Val(date_str)), 1)
             parsed == FirstParsed(s, 1)
         IN  IF ~IsNone(parsed) THEN Some(FormatDate(Val(parsed), FALSE))
             ELSE IF ~IsNone(PatternDate(s))
                  THEN Some(FormatDate(Val(PatternDate(s)), TRUE))
                  ELSE None

(***************************************************************************)
(* Normalizer.normalize_scholarship and Normalizer.normalize_batch.  A raw *)
(* record holds the values of the keys the normalizer reads or writes.     *)
(***************************************************************************)
\* the dict source_map of lines 159-171
SourceMapKeys ==
    {"scholarships_com", "scholarships.com", "fastweb", "careeronestop",
     "CareerOneStop", "iefa", "IEFA", "intl_scholarships_com",
     "intl_scholarships", "internationalscholarships.com", "scholars4dev"}
source_map ==
    [k \in SourceMapKeys |->
        CASE k \in {"scholarships_com", "scholarships.com"} ->
               "scholarships.com"
          [] k \in {"careeronestop", "CareerOneStop"} -> "careeronestop"
          [] k \in {"iefa", "IEFA"} -> "iefa"
          [] k \in {"intl_scholarships_com", "intl_scholarships",
                    "internationalscholarships.com"} ->
               "internationalscholarships.com"
          [] OTHER -> k]

\* Normalizer.normalize_source_name of a str
normalize_source_name(source) ==
    IF source \in SourceMapKeys THEN source_map[source] ELSE Lower(source)

\* an Optional[str] / Optional[int] as a value of a dict
StrValue(o) == IF IsNone(o) THEN PyNone ELSE PyStr(Val(o))
IntValue(o) == IF IsNone(o) THEN PyNone ELSE PyInt(Val(o))

\* `value and isinstance(value, str)`
TruthyText(v) == v.kind = "str" /\ v.s # ""

\* normalize_scholarship raises AttributeError: a source that is no str, or
\* a truthy title or url that is no str
NormalizeRaises(rec) ==
    \/ rec.source.kind \notin {"missing", "str"}
    \/ Truthy(rec.title) /\ rec.title.kind # "str"
    \/ Truthy(rec.url) /\ rec.url.kind # "str"

\* Normalizer.normalize_scholarship when it does not raise: the normalized
\* copy of the record
normalize_scholarship(rec) ==
    LET amounts == normalize_amount(Some(rec.amount.s))
    IN  [source |-> IF rec.source.kind = "str"
                    THEN PyStr(normalize_source_name(rec.source.s))
                    ELSE rec.source,
         deadline |-> IF TruthyText(rec.deadline)
                      THEN StrValue(normalize_date(Some(rec.deadline.s)))
                      ELSE rec.deadline,
         amount |-> rec.amount,
         amount_min |-> IF TruthyText(rec.amount) THEN IntValue(amounts[1])
                        ELSE rec.amount_min,
         amount_max |-> IF TruthyText(rec.amount) THEN IntValue(amounts[2])
                        ELSE rec.amount_max,
         amount_raw |-> IF TruthyText(rec.amount) THEN rec.amount
                        ELSE rec.amount_raw,
         title |-> IF TruthyText(rec.title) THEN PyStr(Strip(rec.title.s))
                   ELSE rec.title,
         url |-> IF TruthyText(rec.url) /\ SubSeq(rec.url.s, 1, 2) = "//"
                 THEN PyStr("https:" \o rec.url.s)
                 ELSE rec.url]

\* the batch that stops at the first record that raises
NormalizeBatchUntilFailure(recs) ==
    LET ok == {n \in 0..Len(recs) :
                  \A i \in 1..n : ~NormalizeRaises(recs[i])}
        last == CHOOSE n \in ok : \A m \in ok : m <= n
    IN  [i \in 1..last |-> normalize_scholarship(recs[i])]

\* Normalizer.normalize_batch: the original record is kept on a failure
normalize_batch(recs) ==
    [i \in 1..Len(recs) |->
        IF NormalizeRaises(recs[i]) THEN recs[i]
        ELSE normalize_scholarship(recs[i])]

\* the records in place of the copies: the normalized values written onto
\* the input records
NormalizedInPlace(recs) == normalize_batch(recs)

\* the input list after normalize_batch: normalize_scholarship writes onto
\* normalized = scholarship.copy() (line 183), never onto its argument
InputsAfterNormalize(recs) == recs

(***************************************************************************)
(* Normalizer inputs: lists of at most MaxRaw raw records.                 *)
(***************************************************************************)
MaxRaw == 2

RawRecord(source, title, deadline, amount, url) ==
    [source |-> source, deadline |-> deadline, amount |-> amount,
     amount_min |-> NoKey, amount_max |-> NoKey, amount_raw |-> NoKey,
     title |-> title, url |-> url]

RawPool ==
    { RawRecord(PyStr("Scholarships_Com"), PyStr("  Smith Award "),
                PyStr("January 15th, 2026"), PyStr("$1,000 - $5,000"),
                PyStr("//example.org/smith")),
      RawRecord(PyStr("IEFA"), PyStr("Women in STEM Scholarship"),
                PyStr("rolling"), PyStr("Varies"), NoKey),
      RawRecord(PyStr("fastweb"), PyStr("Grant"), PyStr("01/15/2026"),
                PyInt(500), PyStr("https://example.org/grant")),
      RawRecord(PyStr("CareerOneStop"), PyNone, PyStr("2026-03-01"),
                PyStr("Up to $10,000"), PyStr("")),
      RawRecord(NoKey, NoKey, NoKey, NoKey, NoKey),
      RawRecord(NoKey, PyInt(123), PyStr("1/15/26"), PyStr("$500"), NoKey),
      RawRecord(PyNone, PyStr(" Award"), NoKey, NoKey, NoKey),
      RawRecord(PyStr("iefa"), PyStr("Fund"), PyInt(20260115), NoKey,
                PyInt(5)) }

RawLists == UNION { [1..n -> RawPool] : n \in 0..MaxRaw }

InitNorm ==
    /\ nb_scholarships \in RawLists
    /\ nb_pc = "start"
    /\ nb_out = <<>>
    /\ nb_again = <<>>
    /\ OnlyNorm

\* one call of normalize_batch on the raw records
NormalizeBatch ==
    /\ nb_pc = "start"
    /\ nb_out' = normalize_batch(nb_scholarships)
    /\ nb_scholarships' = InputsAfterNormalize(nb_scholarships)
    /\ nb_pc' = "normalized"
    /\ UNCHANGED <<nb_again, notNormVars>>

\* a second call of normalize_batch, on the records the first one returned
NormalizeAgain ==
    /\ nb_pc = "normalized"
    /\ nb_again' = normalize_batch(nb_out)
    /\ nb_pc' = "again"
    /\ UNCHANGED <<nb_scholarships, nb_out, notNormVars>>

NextNorm == NormalizeBatch \/ NormalizeAgain

SpecNorm == InitNorm /\ [][NextNorm]_vars

(***************************************************************************)
(* The three stages that return marked copies of their input records.      *)
(***************************************************************************)
InitStages == InitNorm \/ InitDedup \/ InitRank

NextStages == NextNorm \/ NextDedup \/ NextRank

SpecStages == InitStages /\ [][NextStages]_vars

(***************************************************************************)
(* Properties of the normalizer.                                           *)
(***************************************************************************)
Normalized == nb_pc \in {"normalized", "again"}

NormalizedFields ==
    {"source", "deadline", "amount_min", "amount_max", "amount_raw",
     "title", "url"}

\* C15: normalizing a record that normalize_scholarship returned gives that
\* record again, in each of source, deadline, amount_min, amount_max,
\* amount_raw, title and url.
C15_NormalizeIsIdempotent ==
    nb_pc = "again" =>
        \A i \in 1..Len(nb_out) :
            ~NormalizeRaises(nb_scholarships[i]) =>
                \A f \in NormalizedFields : nb_again[i][f] = nb_out[i][f]

\* the second pass changes no field other than source
C15_IdempotentExceptSource ==
    nb_pc = "again" =>
        \A i \in 1..Len(nb_out) :
            \A f \in NormalizedFields \ {"source"} :
                nb_again[i][f] = nb_out[i][f]

\* C16: normalize_batch returns a list of the length of its input whose
\* position i holds the normalized record i, or the original record i when
\* normalizing it raised, whatever the other records of the list are.
C16_BatchKeepsEveryPosition ==
    Normalized =>
        /\ Len(nb_out) = Len(nb_scholarships)
        /\ \A i \in 1..Len(nb_scholarships) :
              /\ nb_out[i] = IF NormalizeRaises(nb_scholarships[i])
                             THEN nb_scholarships[i]
                             ELSE normalize_scholarship(nb_scholarships[i])
              /\ nb_out[i] = normalize_batch(<<nb_scholarships[i]>>)[1]

\* a record that raises is followed in the list by one that normalization
\* changes
C16_Witness ==
    /\ nb_pc = "normalized"
    /\ \E i, j \in 1..Len(nb_scholarships) :
          /\ i < j
          /\ NormalizeRaises(nb_scholarships[i])
          /\ nb_out[i] = nb_scholarships[i]
          /\ ~NormalizeRaises(nb_scholarships[j])
          /\ nb_out[j] # nb_scholarships[j]

NoSoftReqs ==
    [majors |-> <<>>, degree_levels |-> <<>>, year_in_school |-> <<>>,
     demographics |-> <<>>, states |-> <<>>, financial_need |-> None,
     military_affiliation |-> None]

\* the dict {}, the default of scholarship.get("parsed_eligibility", {})
EmptyEligibility == MakeEligibility(None, <<>>, NoSoftReqs)

EligibilityDict(e) == [kind |-> "dict", value |-> e]
EligibilityNone == [kind |-> "none", value |-> EmptyEligibility]
EligibilityMissing == [kind |-> "missing", value |-> EmptyEligibility]

\* line 603: scholarship.get("parsed_eligibility", {}); the default only
\* replaces an absent key
GetParsedEligibility(s) ==
    IF s.parsed_eligibility.kind = "missing"
    THEN EligibilityDict(EmptyEligibility)
    ELSE s.parsed_eligibility

\* line 604: scholarship.get("id", scholarship.get("title", "unknown"))
GetScholarshipId(s) ==
    IF s.id.kind # "missing" THEN s.id
    ELSE IF s.title.kind # "missing" THEN s.title
    ELSE PyStr("unknown")

\* EligibilityMatcher.match with its scholarship_id
match(p, e, scholarship_id) ==
    [scholarship_id |-> scholarship_id, result |-> Match(p, e)]

\* match raises AttributeError at eligibility.get (line 191) when the
\* eligibility is None
MatchRaises(e) == e.kind # "dict"

\* a call of match of the loop of match_batch raises, and match_batch with it
MatchBatchRaises(recs) ==
    \E i \in 1..Len(recs) : MatchRaises(GetParsedEligibility(recs[i]))

\* EligibilityMatcher.match_batch when no call of match raises
match_batch(p, recs) ==
    [i \in 1..Len(recs) |->
        match(p, GetParsedEligibility(recs[i]).value,
              GetScholarshipId(recs[i]))]

BatchProfiles ==
    { MakeProfile(Some(320), Some("us_citizen"), NoSoftFields),
      MakeProfile(Some(350), None, NoSoftFields),
      MakeProfile(None, Some("international"), NoSoftFields) }

BatchPool ==
    { [id |-> PyStr("a"), title |-> PyStr("Smith Award"),
       parsed_eligibility |->
           EligibilityDict(MakeEligibility(Some(350),
               <<"US Citizens", "Permanent Residents">>, NoSoftReqs))],
      [id |-> NoKey, title |-> PyStr("Grant"),
       parsed_eligibility |-> EligibilityMissing],
      [id |-> PyNone, title |-> PyStr("Fund"),
       parsed_eligibility |-> EligibilityNone],
      [id |-> NoKey, title |-> NoKey,
       parsed_eligibility |->
           EligibilityDict(MakeEligibility(None, <<>>,
               [NoSoftReqs EXCEPT !.financial_need = Some(TRUE)]))] }

InitBatch ==
    /\ mb_profile \in {Some(p) : p \in BatchProfiles}
    /\ mb_scholarships \in ListsOf(BatchPool)
    /\ mb_pc = "start"
    /\ mb_out = <<>>
    /\ OnlyBatch

\* one call of match_batch: it returns the list of results, or the exception
\* of a call of match leaves it and nothing is returned
CallMatchBatch ==
    /\ mb_pc = "start"
    /\ IF MatchBatchRaises(mb_scholarships)
       THEN mb_pc' = "raised" /\ mb_out' = mb_out
       ELSE /\ mb_pc' = "returned"
            /\ mb_out' = match_batch(Val(mb_profile), mb_scholarships)
    /\ UNCHANGED <<mb_profile, mb_scholarships, notBatchVars>>

NextBatch == CallMatchBatch

SpecBatch == InitBatch /\ [][NextBatch]_vars

(***************************************************************************)
(* Properties of match_batch.                                              *)
(***************************************************************************)
BatchCalled == mb_pc \in {"returned", "raised"}

\* the eligibility that match is to judge record s by
EligibilityOf(s) == GetParsedEligibility(s).value

\* C20: for every input list, also one with a record whose
\* parsed_eligibility is absent or None, match_batch returns one MatchResult
\* for each record, in the order of the list, and no record keeps the others
\* from being evaluated.
C20_OneResultPerRecord ==
    BatchCalled =>
        /\ mb_pc = "returned"
        /\ Len(mb_out) = Len(mb_scholarships)
        /\ \A i \in 1..Len(mb_scholarships) :
              mb_scholarships[i].parsed_eligibility.kind # "none" =>
                  mb_out[i].result =
                      Match(Val(mb_profile), EligibilityOf(mb_scholarships[i]))

\* match_batch returns one result per record, in order, for the lists
\* without a None parsed_eligibility, and raises for the others
C20_OneResultPerRecordUnlessNone ==
    BatchCalled =>
        IF \E i \in 1..Len(mb_scholarships) :
               mb_scholarships[i].parsed_eligibility.kind = "none"
        THEN mb_pc = "raised" /\ mb_out = <<>>
        ELSE /\ mb_pc = "returned"
             /\ Len(mb_out) = Len(mb_scholarships)
             /\ \A i \in 1..Len(mb_scholarships) :
                   mb_out[i] = match(Val(mb_profile),
                                     EligibilityOf(mb_scholarships[i]),
                                     GetScholarshipId(mb_scholarships[i]))

(***************************************************************************)
(* Matcher inputs that vary one requirement at a time: the citizenship     *)
(* list, the majors list, the two tri-state requirements, or the           *)
(* demographics list, each against the profiles that bear on it.  The      *)
(* lists hold at most MaxRequired strings.                                 *)
(***************************************************************************)
MaxRequired == 2

\* the non-empty lists of at most MaxRequired strings of a pool
RequiredLists(pool) == UNION { [1..n -> pool] : n \in 1..MaxRequired }

CitizenshipStatuses ==
    {"us_citizen", "permanent_resident", "international", "daca", "refugee"}

CitizenshipRequirements ==
    {"US Citizens", "Permanent Residents", "Student", "Green",
     "Non-US INTERNATIONAL applicants", "DACA recipients", "Veterans"}

CitizenshipProfiles ==
    { MakeProfile(Some(350), c, NoSoftFields) :
          c \in {None} \cup {Some(st) : st \in CitizenshipStatuses} }

CitizenshipEligibilities ==
    { MakeEligibility(None, l, NoSoftReqs) :
          l \in RequiredLists(CitizenshipRequirements) }

UserMajors ==
    {None, Some(""), Some("Biology"), Some("Bio"), Some("Computer Science"),
     Some("Art History"), Some("Finance")}

RequiredMajors ==
    {"STEM", "Biology", "biological sciences", "Arts", "Business", "Nursing"}

MajorProfiles ==
    { MakeProfile(None, None, [NoSoftFields EXCEPT !.major = m]) :
          m \in UserMajors }

MajorEligibilities ==
    { MakeEligibility(None, <<>>, [NoSoftReqs EXCEPT !.majors = l]) :
          l \in RequiredLists(RequiredMajors) }

TriState == {None, Some(TRUE), Some(FALSE)}

TriStateProfiles ==
    { MakeProfile(None, None,
          [NoSoftFields EXCEPT !.financial_need = n, !.veteran = v,
                               !.military_affiliation = m]) :
          n \in TriState, v \in TriState,
          m \in {None, Some(""), Some("Army")} }

TriStateEligibilities ==
    { MakeEligibility(None, <<>>,
          [NoSoftReqs EXCEPT !.financial_need = n,
                             !.military_affiliation = m]) :
          n \in TriState, m \in TriState }

DemographicRequirements ==
    {"Female", "Hispanic/Latino", "First-generation students", "LGBTQ+"}

DemographicProfiles ==
    { MakeProfile(None, None,
          [NoSoftFields EXCEPT !.gender = g, !.ethnicity = eth,
                               !.first_generation = fg, !.lgbtq = lg]) :
          g \in {None, Some("female"), Some("non_binary")},
          eth \in {None, Some(<<>>), Some(<<"Hispanic">>), Some(<<"Asian">>)},
          fg \in TriState, lg \in TriState }

DemographicEligibilities ==
    { MakeEligibility(None, <<>>, [NoSoftReqs EXCEPT !.demographics = l]) :
          l \in RequiredLists(DemographicRequirements) }

InitFields ==
    /\ \/ profile \in CitizenshipProfiles
          /\ eligibility \in CitizenshipEligibilities
       \/ profile \in MajorProfiles /\ eligibility \in MajorEligibilities
       \/ profile \in TriStateProfiles /\ eligibility \in TriStateEligibilities
       \/ profile \in DemographicProfiles
          /\ eligibility \in DemographicEligibilities
    /\ result = None
    /\ OnlyMatch

SpecFields == InitFields /\ [][NextMatch]_vars

(***************************************************************************)
(* Properties of the single checks of the matcher.                         *)
(***************************************************************************)
\* the RequirementMatches of the result whose requirement is the label
Labelled(label) == {d \in DetailsOf(Res) : d.requirement = label}

RangeOf(seq) == {seq[i] : i \in 1..Len(seq)}

\* a contains b or b contains a, letter case aside
ContainOneAnother(a, b) ==
    StrIn(Lower(a), Lower(b)) \/ StrIn(Lower(b), Lower(a))

\* the status the citizenship requirement is to have
CitizenshipExpected ==
    LET user == profile.citizenship_status
        reqs == RangeOf(eligibility.citizenship)
        synonyms == RangeOf(CITIZENSHIP_MAP(Val(user)))
    IN  IF IsNone(user) THEN UNKNOWN
        ELSE IF \/ \E r \in reqs, s \in synonyms : ContainOneAnother(r, s)
                \/ /\ user = Some("international")
                   /\ \E r \in reqs : StrIn("international", Lower(r))
        THEN MATCHED
        ELSE UNMATCHED

\* C21: for a non-empty citizenship list the citizenship RequirementMatch is
\* hard; it is unknown for a user without citizenship status, matched when a
\* requirement and a synonym of the user's status contain one another or the
\* user is international and a requirement contains "international", and
\* unmatched otherwise; unmatched makes the result not eligible.
C21_CitizenshipStatus ==
    (Called /\ eligibility.citizenship # <<>>) =>
        /\ Labelled("Citizenship") =
               {RequirementMatch("Citizenship", CitizenshipExpected, TRUE)}
        /\ CitizenshipExpected = UNMATCHED => ~Res.eligible

\* an international user meets ("US Citizens", "Student") through "Student",
\* which the synonym "International Student" contains
C21_Witness ==
    /\ Called
    /\ profile.citizenship_status = Some("international")
    /\ eligibility.citizenship = <<"US Citizens", "Student">>
    /\ Labelled("Citizenship") =
           {RequirementMatch("Citizenship", MATCHED, TRUE)}
    /\ Res.eligible

\* the status the majors requirement is to have for a user with a major
MajorExpected(required_majors) ==
    LET user_major == Val(profile.major)
        reqs == RangeOf(required_majors)
    IN  IF \E r \in reqs : ContainOneAnother(r, user_major) THEN MATCHED
        ELSE IF \E r \in reqs :
                    _is_related_field(Lower(user_major), Lower(r))
        THEN PARTIAL
        ELSE UNMATCHED

\* C22: for a non-empty required-majors list and a user with a major, the
\* major status is matched if a required major and the user's major contain
\* one another, else partial if a required major is related to the user's
\* major, else unmatched; every list with the same set of required majors
\* gets the same status.
C22_MajorStatusBySet ==
    (Called /\ eligibility.majors # <<>> /\ TruthyStr(profile.major)) =>
        /\ Labelled("Major") =
               {RequirementMatch("Major", MajorExpected(eligibility.majors),
                                 FALSE)}
        /\ \A l \in RequiredLists(RequiredMajors) :
              RangeOf(l) = RangeOf(eligibility.majors) =>
                  _check_major(profile, [eligibility EXCEPT !.majors = l])
                      = _check_major(profile, eligibility)

\* the related entry "STEM" comes before the matched entry "Biology"
C22_Witness ==
    /\ Called
    /\ profile.major = Some("Biology")
    /\ eligibility.majors = <<"STEM", "Biology">>
    /\ _is_related_field("biology", "stem")
    /\ Labelled("Major") = {RequirementMatch("Major", MATCHED, FALSE)}

\* the status of a tri-state requirement that is required or not required,
\* for a user who has what it asks for, lacks it, or has left it unset
TriStateExpected(requires, has, unset) ==
    IF ~requires THEN MATCHED
    ELSE IF unset THEN UNKNOWN
    ELSE IF has THEN MATCHED
    ELSE UNMATCHED

\* the same with the unset user looked at before the requirement
TriStateUnsetFirst(requires, has, unset) ==
    IF unset THEN UNKNOWN
    ELSE IF ~requires \/ has THEN MATCHED
    ELSE UNMATCHED

NeedLabel == "Demonstrates financial need"
MilitaryLabel == "Military affiliation"
UserHasMilitary ==
    TruthyStr(profile.military_affiliation) \/ profile.veteran = Some(TRUE)
UserMilitaryUnset ==
    ~TruthyStr(profile.military_affiliation) /\ IsNone(profile.veteran)

\* C23: a financial-need or military requirement that is null produces no
\* RequirementMatch; one that is false is matched for every profile, the
\* unset one included; one that is true is matched for a user who has the
\* need or affiliation, unmatched for one who lacks it, unknown for one who
\* left it unset.
C23_TriStateRequirements ==
    Called =>
        /\ Labelled(NeedLabel) =
               IF IsNone(eligibility.financial_need) THEN {}
               ELSE {RequirementMatch(NeedLabel,
                        TriStateExpected(Val(eligibility.financial_need),
                            profile.financial_need = Some(TRUE),
                            IsNone(profile.financial_need)), FALSE)}
        /\ Labelled(MilitaryLabel) =
               IF IsNone(eligibility.military_affiliation) THEN {}
               ELSE {RequirementMatch(MilitaryLabel,
                        TriStateExpected(Val(eligibility.military_affiliation),
                            UserHasMilitary, UserMilitaryUnset), FALSE)}

\* what the checks do: the unset user is unknown whether or not the
\* requirement is required
C23_UnsetUserIsUnknown ==
    Called =>
        /\ Labelled(NeedLabel) =
               IF IsNone(eligibility.financial_need) THEN {}
               ELSE {RequirementMatch(NeedLabel,
                        TriStateUnsetFirst(Val(eligibility.financial_need),
                            profile.financial_need = Some(TRUE),
                            IsNone(profile.financial_need)), FALSE)}
        /\ Labelled(MilitaryLabel) =
               IF IsNone(eligibility.military_affiliation) THEN {}
               ELSE {RequirementMatch(MilitaryLabel,
                        TriStateUnsetFirst(
                            Val(eligibility.military_affiliation),
                            UserHasMilitary, UserMilitaryUnset), FALSE)}

\* the demographic RequirementMatches of the result, in the order of the list
DemographicDetails ==
    SelectSeq(Res.details,
              LAMBDA d : /\ Len(d.requirement) >= 14
                         /\ SubSeq(d.requirement, 1, 14) = "Demographics: ")

\* the profile holds a signal that bears on the requirement string: a known
\* gender for the gender requirement, a non-empty ethnicity list for the
\* ethnicity requirement, an explicit flag for the other two
HoldsSignal(req) ==
    \/ req = "Female" /\ ~IsNone(profile.gender)
    \/ req = "Hispanic/Latino" /\ ~IsNone(profile.ethnicity)
          /\ Val(profile.ethnicity) # <<>>
    \/ req = "First-generation students" /\ ~IsNone(profile.first_generation)
    \/ req = "LGBTQ+" /\ ~IsNone(profile.lgbtq)

\* the string alone as the demographics list gets the status
StatusAlone(req) ==
    _check_demographics(profile,
        [eligibility EXCEPT !.demographics = <<req>>])[1].status

\* C24: match produces one soft RequirementMatch per listed demographic
\* requirement string, in order and each as if it were listed alone, and
\* its status is unknown exactly when the profile holds no signal bearing
\* on the requirement.
C24_DemographicsOnePerRequirement ==
    Called =>
        /\ Len(DemographicDetails) = Len(eligibility.demographics)
        /\ \A i \in 1..Len(eligibility.demographics) :
              LET req == eligibility.demographics[i]
                  d == DemographicDetails[i]
              IN  /\ d.requirement = "Demographics: " \o req
                  /\ ~d.is_hard
                  /\ d.status = StatusAlone(req)
                  /\ d.status = UNKNOWN <=> ~HoldsSignal(req)

\* one soft RequirementMatch per listed string, in order and each as if
\* listed alone; a gender or an ethnicity requirement is never unmatched,
\* it is unknown for every user it does not match
C24_GenderAndEthnicityNeverUnmatched ==
    Called =>
        /\ Len(DemographicDetails) = Len(eligibility.demographics)
        /\ \A i \in 1..Len(eligibility.demographics) :
              LET req == eligibility.demographics[i]
                  d == DemographicDetails[i]
              IN  /\ d.requirement = "Demographics: " \o req
                  /\ ~d.is_hard
                  /\ d.status = StatusAlone(req)
                  /\ req \in {"Female", "Hispanic/Latino"} =>
                         d.status \in {MATCHED, UNKNOWN}
                  /\ req \in {"First-generation students", "LGBTQ+"} =>
                         (d.status = UNKNOWN <=> ~HoldsSignal(req))


(***************************************************************************)
(* The deadline urgency signal over the days to the deadline               *)
(***************************************************************************)
\* the days to the deadline that are taken one by one
MaxDays == 90
\* days to a deadline so far away that math.exp has underflowed to 0.0
FarDays == {33000, 33001}
UrgencyDeadlines ==
    {NoDeadline, TextValue}
    \cup {DateValue(r + d) : r \in ReferenceDates,
                             d \in (-2..MaxDays) \cup FarDays}
UrgencyScholarships ==
    [deadline : UrgencyDeadlines, amount_max : {None}, amount_min : {None},
     effort_score : {None}, competition_score : {None}]

InitUrgency ==
    /\ match_result = Some([eligible |-> TRUE,
                            match_percentage |-> MatchPercentage(1, 0, 1)])
    /\ scholarship \in {Some(s) : s \in UrgencyScholarships}
    /\ reference_date \in {Some(r) : r \in ReferenceDates}
    /\ fit_score = None
    /\ OnlyScore

SpecUrgency == InitUrgency /\ [][NextScore]_vars

\* the signal of the scored record, read back from the weighted component
UrgencyIs(x) == Val(fit_score).deadline_urgency = x * WEIGHT_DEADLINE
DaysScored == Val(fit_score).days_until_deadline
UrgencyValues ==
    /\ IsNone(DaysScored) => UrgencyIs(HALF)
    /\ ~IsNone(DaysScored) =>
          /\ Val(DaysScored) < 0 => UrgencyIs(0)
          /\ Val(DaysScored) = 0 => UrgencyIs(ONE)
          /\ Val(DaysScored) = 30 => UrgencyIs(HALF)
          /\ Val(DaysScored) = 60 => UrgencyIs(ONE \div 4)
DropsAfter(days) ==
    _calculate_deadline_urgency(Some(days + 1))
        < _calculate_deadline_urgency(Some(days))
NoRiseAfter(days) ==
    _calculate_deadline_urgency(Some(days + 1))
        <= _calculate_deadline_urgency(Some(days))

ValueDensityIs(x) == Val(fit_score).value_density = x * WEIGHT_VALUE
\* amount_max when it is present, amount_min otherwise
PresentAmount(s) == IF ~IsNone(s.amount_max) THEN s.amount_max ELSE s.amount_min
BothNull(s) == IsNone(s.amount_max) /\ IsNone(s.amount_min)

\* C26 (as claimed): calculate uses amount_max when it is not None and
\* amount_min otherwise; the value density is 0.5 exactly when both are
\* None, and 0 whenever the amount used is at most 0, an amount_max of 0
\* included.
C26_AmountMaxWhenPresent ==
    Scored =>
        LET s == Val(scholarship)
        IN  /\ Val(fit_score).amount = PresentAmount(s)
            /\ ValueDensityIs(HALF) <=> BothNull(s)
            /\ (~IsNone(PresentAmount(s)) /\ Val(PresentAmount(s)) <= 0) =>
                  ValueDensityIs(0)

\* what holds of C26: an amount_max of None or of 0 gives way to
\* amount_min; the value density is 0.5 exactly when the amount so chosen
\* is None and 0 whenever it is at most 0
C26_AmountMaxWhenTruthy ==
    Scored =>
        LET s == Val(scholarship)
            amount == IF ~IsNone(s.amount_max) /\ Val(s.amount_max) # 0
                      THEN s.amount_max ELSE s.amount_min
        IN  /\ Val(fit_score).amount = amount
            /\ ValueDensityIs(HALF) <=> IsNone(amount)
            /\ (~IsNone(amount) /\ Val(amount) <= 0) => ValueDensityIs(0)


(***************************************************************************)
(* Deduplicator.get_duplicate_groups and a second pass of deduplicate,     *)
(* on lists that may be longer than the limit of the all-pairs pass        *)
(***************************************************************************)
RECURSIVE AscendingSeq(_)
\* sorted(S) for a set of indices
AscendingSeq(S) ==
    IF S = {} THEN <<>>
    ELSE LET least == CHOOSE x \in S : \A y \in S : x <= y
         IN  <<least>> \o AscendingSeq(S \ {least})

\* the adjacency sets of lines 287-290
Adjacent(pairs, node) ==
    {pairs[k][2] : k \in {m \in 1..Len(pairs) : pairs[m][1] = node}}
    \cup {pairs[k][1] : k \in {m \in 1..Len(pairs) : pairs[m][2] = node}}

RECURSIVE Bfs(_, _, _, _)
\* the while loop of lines 302-311: the group and the visited set it leaves
Bfs(pairs, queue, visited, group) ==
    IF queue = <<>> THEN [group |-> group, visited |-> visited]
    ELSE LET node == Head(queue)
         IN  IF node \in visited
             THEN Bfs(pairs, Tail(queue), visited, group)
             ELSE Bfs(pairs,
                      Tail(queue)
                        \o AscendingSeq(Adjacent(pairs, node)
                                          \ (visited \cup {node})),
                      visited \cup {node},
                      Append(group, node))

RECURSIVE ComponentsFrom(_, _, _, _)
\* the for loop of lines 296-314 from record i on
ComponentsFrom(pairs, n, i, visited) ==
    IF i > n THEN <<>>
    ELSE IF i \in visited THEN ComponentsFrom(pairs, n, i + 1, visited)
    ELSE LET found == Bfs(pairs, <<i>>, visited, <<>>)
             rest == ComponentsFrom(pairs, n, i + 1, found.visited)
         IN  IF Len(found.group) > 1
             THEN <<AscendingSeq(Range(found.group))>> \o rest
             ELSE rest

\* groups of a record and its direct neighbours only
GroupsOfNeighbours(recs, more) ==
    LET pairs == FindDuplicates(recs, more)
        alone(i) == \A k \in 1..(i - 1) : i \notin Adjacent(pairs, k)
        group(i) == AscendingSeq({i} \cup Adjacent(pairs, i))
        firsts == SelectSeq(AscendingSeq(1..Len(recs)),
                            LAMBDA i : alone(i) /\ Len(group(i)) > 1)
    IN  [k \in 1..Len(firsts) |-> group(firsts[k])]

\* Deduplicator.get_duplicate_groups on the records recs followed by `more`
\* records that are in no duplicate pair
get_duplicate_groups(recs, more) ==
    ComponentsFrom(FindDuplicates(recs, more), Len(recs), 1, {})

\* the dicts deduplicate returned; is_duplicate and duplicate_of are keys
\* that no function of the Deduplicator reads
ReturnedRecords == [k \in 1..Len(dedup_out) |-> dedup_out[k].record]

\* the number of records the list is padded with: none, or as many as make
\* a list of three records longer than FUZZY_LIMIT and one of two not
FillerCounts == {0, FUZZY_LIMIT - 2}

\* the records of the pool whose titles are equal after normalization,
\* similar, unlike or empty
LargeListPool ==
    {r \in RecordPool :
        r.title \in {PyStr("Smith Award"), PyStr("SMITH award"),
                     PyStr("J.Smith Award"), PyStr("Smithe Award"),
                     PyStr("Women in STEM Scholarship"), PyStr("")}}
LargeLists ==
    UNION { [1..n -> LargeListPool] : n \in 0..MaxRecords }

InitDedupLarge ==
    /\ scholarships \in LargeLists
    /\ mark_only \in BOOLEAN
    /\ filler \in FillerCounts
    /\ dd_pc = "start"
    /\ completeness = <<>> /\ duplicate_pairs = <<>> /\ pending = {}
    /\ parent = <<>> /\ dedup_out = <<>>
    /\ first_pass = None /\ dup_groups = None
    /\ OnlyDedup

\* a call with mark_only=False has returned and deduplicate is called on
\* the list it returned, filler records included
DedupAgain ==
    /\ dd_pc = "done" /\ ~mark_only
    /\ first_pass = None
    /\ first_pass' = Some([size |-> Len(scholarships) + filler,
                           out |-> dedup_out])
    /\ scholarships' = ReturnedRecords
    /\ dd_pc' = "start"
    /\ completeness' = <<>> /\ duplicate_pairs' = <<>> /\ pending' = {}
    /\ parent' = <<>> /\ dedup_out' = <<>>
    /\ dup_groups' = None
    /\ UNCHANGED <<mark_only, filler, notDedupVars>>

\* get_duplicate_groups on the list deduplicate was called with
GetDuplicateGroups ==
    /\ dd_pc = "done"
    /\ dup_groups = None
    /\ dup_groups' = Some(get_duplicate_groups(scholarships, filler))
    /\ UNCHANGED <<scholarships, mark_only, dd_pc, completeness,
                   duplicate_pairs, pending, parent, dedup_out, filler,
                   first_pass, notDedupVars>>

NextDedupLarge == NextDedup \/ DedupAgain \/ GetDuplicateGroups

SpecDedupLarge == InitDedupLarge /\ [][NextDedupLarge]_vars

\* find_duplicates has returned and no pair is unioned yet
PairsFound == dd_pc = "union" /\ pending = 1..Len(duplicate_pairs)
\* the size of the whole input list
InputSize == Len(scholarships) + filler
Reported == {duplicate_pairs[k] : k \in 1..Len(duplicate_pairs)}
SimilarTitles(i, j) ==
    AtLeastThreshold(TitleSimilarity(GetTitle(scholarships[i]),
                                     GetTitle(scholarships[j])))
SameFingerprint(i, j) ==
    TitleFingerprint(GetTitle(scholarships[i]))
        = TitleFingerprint(GetTitle(scholarships[j]))
\* the shorter title is at least half as long as the longer one
LengthRatioAtLeastHalf(i, j) ==
    LET l1 == Len(GetTitle(scholarships[i]).s)
        l2 == Len(GetTitle(scholarships[j]).s)
    IN  2 * Min2(l1, l2) >= Max2(l1, l2)

\* C27: find_duplicates reports a pair (i, j) only if the two titles are at
\* least threshold-similar, with i < j and no pair twice; on a list of at
\* most 1000 records it reports every such pair that shares a fingerprint
\* or whose shorter title is at least half as long as the longer; on a
\* longer list it reports exactly the similar pairs that share a
\* fingerprint.
C27_ReportedPairs ==
    PairsFound =>
        /\ \A k \in 1..Len(duplicate_pairs) :
              /\ duplicate_pairs[k][1] < duplicate_pairs[k][2]
              /\ duplicate_pairs[k][2] <= Len(scholarships)
              /\ SimilarTitles(duplicate_pairs[k][1], duplicate_pairs[k][2])
              /\ \A m \in 1..Len(duplicate_pairs) :
                    duplicate_pairs[m] = duplicate_pairs[k] => m = k
        /\ InputSize <= FUZZY_LIMIT =>
              \A i \in Indices : \A j \in Indices :
                  (/\ i < j /\ SimilarTitles(i, j)
                   /\ SameFingerprint(i, j) \/ LengthRatioAtLeastHalf(i, j))
                      => <<i, j>> \in Reported
        /\ InputSize > FUZZY_LIMIT =>
              Reported = {pr \in Indices \X Indices :
                              /\ pr[1] < pr[2]
                              /\ SimilarTitles(pr[1], pr[2])
                              /\ SameFingerprint(pr[1], pr[2])}

\* C27 witness: a list of more than 1000 records in which one pair shares a
\* fingerprint and is reported and another is similar across two buckets
\* and is not.
C27_Witness ==
    /\ PairsFound
    /\ InputSize > FUZZY_LIMIT
    /\ <<1, 2>> \in Reported
    /\ SimilarTitles(2, 3) /\ ~SameFingerprint(2, 3)
    /\ <<2, 3>> \notin Reported


\* get_duplicate_groups has returned
GroupsReturned == dup_groups # None
\* the groups it returned, each as a set of indices
ReturnedGroups == {Range(Val(dup_groups)[g]) : g \in 1..Len(Val(dup_groups))}
\* the union-find classes deduplicate built
FindClasses ==
    {{j \in Indices : Find(parent, j) = Find(parent, i)} : i \in Indices}
\* is_duplicate of record i in the list deduplicate returned: a record left
\* out of it by mark_only = false was marked a duplicate
MarkedDuplicate(i) ==
    \A k \in 1..Len(dedup_out) :
        dedup_out[k].index = i => dedup_out[k].is_duplicate

\* C28: the groups get_duplicate_groups returns are pairwise disjoint, each
\* sorted ascending and of size greater than 1, and they are the union-find
\* classes of size greater than 1 that deduplicate builds for the same
\* list; a record marked is_duplicate lies in one group with its canonical
\* record and a record outside all groups is not marked.
C28_GroupsAreFindClasses ==
    GroupsReturned =>
        LET groups == Val(dup_groups)
        IN  /\ \A g \in 1..Len(groups) :
                  /\ Len(groups[g]) > 1
                  /\ \A k \in 1..(Len(groups[g]) - 1) :
                        groups[g][k] < groups[g][k + 1]
                  /\ \A h \in 1..Len(groups) :
                        h # g => Range(groups[g]) \cap Range(groups[h]) = {}
            /\ ReturnedGroups = {c \in FindClasses : Cardinality(c) > 1}
            /\ \A i \in Indices :
                  /\ MarkedDuplicate(i) =>
                        \E c \in ReturnedGroups :
                            i \in c /\ Find(parent, i) \in c
                  /\ (\A c \in ReturnedGroups : i \notin c) =>
                        ~MarkedDuplicate(i)

\* C28 witness: three records that are one group although the first and the
\* last are no duplicate pair, two of them marked duplicates.
C28_Witness ==
    /\ GroupsReturned /\ mark_only
    /\ Val(dup_groups) = <<<<1, 2, 3>>>>
    /\ <<1, 3>> \notin Reported
    /\ Cardinality({i \in Indices : MarkedDuplicate(i)}) = 2


\* the root the group of record i has when deduplicate returns
FinalRoot(i) == CHOOSE r \in Group(i) : parent[r] = r
\* the id of a record, or its title when it has no id
IdOrTitle(rec) == IF rec.id.kind = "missing" THEN rec.title ELSE rec.id

\* C29: in the list deduplicate returns, whatever the order of the unions,
\* a record with is_duplicate = true has duplicate_of equal to the id (the
\* title without an id) of the final root of its group, which is another
\* record with is_duplicate = false and duplicate_of = null; a record with
\* is_duplicate = false has duplicate_of = null.
C29_DuplicateOfIsFinalRoot ==
    Returned =>
        \A k \in 1..Len(dedup_out) :
            LET i == dedup_out[k].index
                root == FinalRoot(i)
            IN  /\ dedup_out[k].is_duplicate =>
                      /\ root # i
                      /\ dedup_out[k].duplicate_of
                            = IdOrTitle(scholarships[root])
                      /\ mark_only =>
                            /\ ~dedup_out[root].is_duplicate
                            /\ dedup_out[root].duplicate_of = PyNone
                /\ ~dedup_out[k].is_duplicate =>
                      /\ root = i
                      /\ dedup_out[k].duplicate_of = PyNone

\* C29 witness: a group of three records built by two unions; both
\* duplicates name the root, which has no id, by its title.
C29_Witness ==
    /\ Returned /\ mark_only
    /\ Len(scholarships) = 3
    /\ Group(1) = {1, 2, 3}
    /\ \E r \in Indices :
          /\ FinalRoot(1) = r
          /\ scholarships[r].id = NoKey
          /\ \A i \in Indices \ {r} :
                /\ dedup_out[i].is_duplicate
                /\ dedup_out[i].duplicate_of = scholarships[r].title


\* the second of two calls has returned
PassedAgain == first_pass # None /\ dd_pc = "done"
\* a dict of the returned list without its position in the input
Dict(s) ==
    [record |-> s.record, is_duplicate |-> s.is_duplicate,
     duplicate_of |-> s.duplicate_of]
\* the second call found no duplicate pair, marked no record and returned
\* the records the first call returned
SameRecords ==
    /\ duplicate_pairs = <<>>
    /\ Len(dedup_out) = Len(Val(first_pass).out)
    /\ \A k \in 1..Len(dedup_out) :
          /\ ~dedup_out[k].is_duplicate
          /\ Dict(dedup_out[k]) = Dict(Val(first_pass).out[k])

\* C30 (as claimed): for every input size,
\* deduplicate(deduplicate(R, mark_only=false), mark_only=false) returns
\* the records deduplicate(R, mark_only=false) returns: the second pass
\* finds no duplicate pair and marks no record.
C30_DropIsIdempotent == PassedAgain => SameRecords

\* C30 (corrected): the second pass returns the records of the first when
\* the input has at most 1000 records, or when more than 1000 records are
\* left after the first pass.
C30_DropIsIdempotentWithinLimit ==
    (/\ PassedAgain
     /\ Val(first_pass).size <= FUZZY_LIMIT \/ InputSize > FUZZY_LIMIT)
        => SameRecords

\* C30 witness: a list of three records of which the first pass dropped
\* one, and the second pass none of the two left.
C30_Witness ==
    /\ PassedAgain
    /\ Val(first_pass).size = 3
    /\ Len(Val(first_pass).out) = 2
    /\ SameRecords
====
